---- MODULE Spec2Model ----
(***************************************************************************)
(* Model of the stability_rs request builders (TextToImageBuilder,         *)
(* ImageToImageBuilder, MaskerBuilder, UpscalerBuilder), the finalized     *)
(* requests they build and the bodies those requests serialize to.         *)
(*                                                                         *)
(* A builder method `fn m(mut self, x) -> Result<Self>` is an operator     *)
(* from (self, x) to Ok(builder) or Err(error); the action that calls it   *)
(* moves the returned builder into `b`, or drops the builder on Err.       *)
(***************************************************************************)
EXTENDS Integers, Sequences, FiniteSets, TLC

VARIABLES
    kind,     \* which builder type this call chain uses
    b,        \* the live builder (None once it was moved or dropped)
    pc,       \* "accumulating" | "failed" | "built" | "encoded"
    res,      \* the last call: [op, arg, err], err = None for Ok(..)
    req,      \* the finalized request build() returned (None before that)
    out,      \* the serialized body of the request (None before that)
    ncalls,   \* number of setter calls made on the live builder
    enc,      \* a MultipartFormData being filled by its caller (None: none)
    env,      \* the value of STABILITY_API_KEY in the environment (None: unset)
    call,     \* the API operation or client use in progress: [op, arg], and
              \*   for an API function self and the builder calls still to make
    cpc,      \* its position: "idle" | "new" | "chain" | "builder" | "client" |
              \*   "connect" | "tls" | "handshake" | "request" | "frames" | "done"
    client,   \* the live ClientBuilder or the Client it built (None: none)
    payload,  \* the body handed to send_request (None before that)
    trace,    \* what the operation did so far, in order: [ev, ok]
    resp,     \* the response: [status, bytes read so far, frames received,
              \*   each Some(data) or None for a frame without data]
    sent,     \* the value send_request returned (None before that)
    ret,      \* the value the operation returned (None before that)
    img,      \* the base64 text of the Image being saved, one character each
    disk,     \* the bytes of the file at the save path (None: no such file)
    prior,    \* what disk was when save() was called
    spc,      \* position in save(): "idle" | "create" | "decode" | "write" |
              \*   "returned"
    buf,      \* the decoded bytes (`buffer`)
    inflight, \* bytes handed to the blocking write, not yet on disk (None: none)
    sret,     \* the value save() returned (None before that)
    tasks,    \* concurrent API calls, each with its own [op, cpc, client,
              \*   conn, trace, resp, ret] as above; conn is its connection
    conns     \* the connections opened so far: the call that opened each

builderVars == <<kind, b, pc, res, req, out, ncalls>>
clientVars == <<env, call, cpc, client, payload, trace, resp, sent, ret>>
saveVars == <<img, disk, prior, spc, buf, inflight, sret>>
taskVars == <<tasks, conns>>
vars == <<builderVars, enc, clientVars, saveVars, taskVars>>

-----------------------------------------------------------------------------
(* Bounds and input sets *)

\* longest chain of setter calls on one builder
MaxCalls == 5

\* Option<T>: None, Some(v)
None == <<>>
Some(v) == <<v>>
is_none(o) == o = None
is_some(o) == o # None
unwrap(o) == o[1]
unwrap_or(o, d) == IF o = None THEN d ELSE o[1]

\* Result<T>: Ok(v), Err(e)
Ok(v) == [tag |-> "Ok", val |-> v]
Err(e) == [tag |-> "Err", val |-> e]

\* u32 arguments tried for each validated setter (boundary values of each check)
Dims == {0, 64, 100, 128, 1024}
UpscaleDims == {0, 511, 512, 2048}
CfgScales == {0, 35, 36}
SamplesVals == {1, 10, 11}
StepsVals == {0, 9, 10, 150, 151}
Seeds == {7}
\* (text, weight) arguments of text_prompt(): an empty and two non-empty texts
PromptArgs == {<<"", 1>>, <<"a castle", 1>>, <<"stones", -1>>}
ExtrasVals == {{<<"k", "v">>}}
InitPaths == {"init_image.png"}
MaskPaths == {"mask.png"}
Paths == InitPaths \cup MaskPaths

StylePresets == {"DigitalArt", "Anime"}
ClipGuidancePresets == {"FastBlue", "None"}
Samplers == {"KLms", "None"}
MaskSources == {"MaskImageBlack", "MaskImageWhite", "InitImageAlpha"}
ImageModes == {"ImageStrength", "StepSchedule"}
ImageStrengths == {35}
Kinds == {"TextToImageBuilder", "ImageToImageBuilder", "MaskerBuilder", "UpscalerBuilder"}

-----------------------------------------------------------------------------
(* error.rs: ImageBuilderError and its Display text *)

HeightNotMultipleOf64(v) == [variant |-> "HeightNotMultipleOf64", val |-> Some(v)]
HeightLessThan128(v) == [variant |-> "HeightLessThan128", val |-> Some(v)]
WidthNotMultipleOf64(v) == [variant |-> "WidthNotMultipleOf64", val |-> Some(v)]
WidthLessThan128(v) == [variant |-> "WidthLessThan128", val |-> Some(v)]
CfgScaleGreaterThan35(v) == [variant |-> "CfgScaleGreaterThan35", val |-> Some(v)]
SamplesGreaterThan10(v) == [variant |-> "SamplesGreaterThan10", val |-> Some(v)]
StepsGreaterThan150(v) == [variant |-> "StepsGreaterThan150", val |-> Some(v)]
StepsLessThan10(v) == [variant |-> "StepsLessThan10", val |-> Some(v)]
StylePresetNotSet == [variant |-> "StylePresetNotSet", val |-> None]
TextPromptEmpty == [variant |-> "TextPromptEmpty", val |-> None]
InitImagePathNotSet == [variant |-> "InitImagePathNotSet", val |-> None]
UpscaleHeightLessThan512(v) == [variant |-> "UpscaleHeightLessThan512", val |-> Some(v)]
UpscaleWidthLessThan512(v) == [variant |-> "UpscaleWidthLessThan512", val |-> Some(v)]
UpscaleImagePathNotSet == [variant |-> "UpscaleImagePathNotSet", val |-> None]
UpscaleWidthHeightConflict == [variant |-> "UpscaleWidthHeightConflict", val |-> None]
MaskSourceNotSet == [variant |-> "MaskSourceNotSet", val |-> None]
MaskImagePathNotSet == [variant |-> "MaskImagePathNotSet", val |-> None]
\* std::io::Error of a failed File::open / read
IoError(path) == [variant |-> "IoError", val |-> Some(path)]

\* #[error("...{0}")]: the message is the fixed text followed by the value
ImageBuilderError_to_string(e) ==
    CASE e.variant = "HeightNotMultipleOf64" ->
            <<"height must be a multiple of 64, but was ", e.val[1]>>
      [] e.variant = "HeightLessThan128" ->
            <<"height must not be less than 128, but was ", e.val[1]>>
      [] e.variant = "WidthNotMultipleOf64" ->
            <<"width must be a multiple of 64, but was ", e.val[1]>>
      [] e.variant = "WidthLessThan128" ->
            <<"width must not be less than 128, but was ", e.val[1]>>
      [] e.variant = "CfgScaleGreaterThan35" ->
            <<"cfg_scale must be no greater than 35, but was ", e.val[1]>>
      [] e.variant = "SamplesGreaterThan10" ->
            <<"samples must be no greater than 10, but was ", e.val[1]>>
      [] e.variant = "StepsGreaterThan150" ->
            <<"steps must be no greater than 150, but was ", e.val[1]>>
      [] e.variant = "StepsLessThan10" ->
            <<"steps must be no less than 10, but was ", e.val[1]>>
      [] e.variant = "StylePresetNotSet" -> <<"a style preset must be set">>
      [] e.variant = "TextPromptEmpty" -> <<"a text prompt must not be empty">>
      [] e.variant = "InitImagePathNotSet" -> <<"init image path must be set">>
      [] e.variant = "UpscaleHeightLessThan512" ->
            <<"upscale height must be greater or equal to 512, but was ", e.val[1]>>
      [] e.variant = "UpscaleWidthLessThan512" ->
            <<"upscale width must be greater or equal to 512, but was ", e.val[1]>>
      [] e.variant = "UpscaleImagePathNotSet" -> <<"upscale image path must be set">>
      [] e.variant = "UpscaleWidthHeightConflict" ->
            <<"only one of width or height may be specified">>
      [] e.variant = "MaskSourceNotSet" -> <<"a mask source must be set">>
      [] e.variant = "MaskImagePathNotSet" ->
            <<"mask image path must be set when using a black or white mask source">>
      [] OTHER -> <<"io error">>

-----------------------------------------------------------------------------
(* generation/mod.rs: the enums, their serde names and their Display text *)

\* #[serde(rename_all = "SCREAMING_SNAKE_CASE")] enum ClipGuidancePreset
ClipGuidancePreset_serialize(c) ==
    CASE c = "FastBlue" -> "FAST_BLUE"
      [] c = "FastGreen" -> "FAST_GREEN"
      [] c = "Simple" -> "SIMPLE"
      [] c = "Slow" -> "SLOW"
      [] c = "Slower" -> "SLOWER"
      [] c = "Slowest" -> "SLOWEST"
      [] c = "None" -> "NONE"

ClipGuidancePreset_fmt(c) ==
    CASE c = "FastBlue" -> "fast_blue"
      [] c = "FastGreen" -> "fast_green"
      [] c = "Simple" -> "simple"
      [] c = "Slow" -> "slow"
      [] c = "Slower" -> "slower"
      [] c = "Slowest" -> "slowest"
      [] c = "None" -> "none"

ClipGuidancePreset_is_none(c) == c = "None"

\* #[serde(rename_all = "kebab-case")] enum StylePreset
StylePreset_serialize(s) ==
    CASE s = "ThreeDModel" -> "3d-model"
      [] s = "Anime" -> "anime"
      [] s = "AnalogFilm" -> "analog-film"
      [] s = "Cinematic" -> "cinematic"
      [] s = "ComicBook" -> "comic-book"
      [] s = "DigitalArt" -> "digital-art"
      [] s = "Enhance" -> "enhance"
      [] s = "FantasyArt" -> "fantasy-art"
      [] s = "Isometric" -> "isometric"
      [] s = "LineArt" -> "line-art"
      [] s = "LowPoly" -> "low-poly"
      [] s = "ModelingCompound" -> "modeling-compound"
      [] s = "NeonPunk" -> "neon-punk"
      [] s = "Origami" -> "origami"
      [] s = "Photographic" -> "photographic"
      [] s = "PixelArt" -> "pixel-art"
      [] s = "TileTexture" -> "tile-texture"

StylePreset_fmt(s) ==
    CASE s = "ThreeDModel" -> "3d-model"
      [] s = "Anime" -> "anime"
      [] s = "AnalogFilm" -> "analog-film"
      [] s = "Cinematic" -> "cinematic"
      [] s = "ComicBook" -> "comic-book"
      [] s = "DigitalArt" -> "digital-art"
      [] s = "Enhance" -> "enhance"
      [] s = "FantasyArt" -> "fantasy-art"
      [] s = "Isometric" -> "isometric"
      [] s = "LineArt" -> "line-art"
      [] s = "LowPoly" -> "low-poly"
      [] s = "ModelingCompound" -> "modeling-compound"
      [] s = "NeonPunk" -> "neon-punk"
      [] s = "Origami" -> "origami"
      [] s = "Photographic" -> "photographic"
      [] s = "PixelArt" -> "pixel-art"
      [] s = "TileTexture" -> "tile-texture"

\* #[serde(rename_all = "SCREAMING_SNAKE_CASE")] enum Sampler, with its renames
Sampler_serialize(s) ==
    CASE s = "Ddim" -> "DDIM"
      [] s = "Ddpm" -> "DDPM"
      [] s = "KDpmpp2m" -> "K_DPMPP_2M"
      [] s = "KDpmpp2sAncestral" -> "K_DPMPP_2S_ANCESTRAL"
      [] s = "KDpm2" -> "K_DPMP_2"
      [] s = "KDpm2Ancestral" -> "K_DPMP_2_ANCESTRAL"
      [] s = "KEuler" -> "K_EULER"
      [] s = "KEAncestral" -> "K_EULER_ANCESTRAL"
      [] s = "KHeun" -> "K_HEUN"
      [] s = "KLms" -> "K_LMS"
      [] s = "None" -> "NONE"

Sampler_fmt(s) ==
    CASE s = "Ddim" -> "ddim"
      [] s = "Ddpm" -> "ddpm"
      [] s = "KDpmpp2m" -> "k_dpmpp_2m"
      [] s = "KDpmpp2sAncestral" -> "k_dpmpp_2s_ancestral"
      [] s = "KDpm2" -> "k_dpm_2"
      [] s = "KDpm2Ancestral" -> "k_dpm_2_ancestral"
      [] s = "KEuler" -> "k_euler"
      [] s = "KEAncestral" -> "k_euler_ancestral"
      [] s = "KHeun" -> "k_heun"
      [] s = "KLms" -> "k_lms"
      [] s = "None" -> "none"

Sampler_is_none(s) == s = "None"

\* masking.rs: impl Display for MaskSource
MaskSource_fmt(m) ==
    CASE m = "MaskImageBlack" -> "mask_image_black"
      [] m = "MaskImageWhite" -> "mask_image_white"
      [] m = "InitImageAlpha" -> "init_image_alpha"

\* str::to_ascii_uppercase on the Display texts above
to_ascii_uppercase(s) ==
    CASE s = "fast_blue" -> "FAST_BLUE"
      [] s = "fast_green" -> "FAST_GREEN"
      [] s = "simple" -> "SIMPLE"
      [] s = "slow" -> "SLOW"
      [] s = "slower" -> "SLOWER"
      [] s = "slowest" -> "SLOWEST"
      [] s = "none" -> "NONE"
      [] s = "ddim" -> "DDIM"
      [] s = "ddpm" -> "DDPM"
      [] s = "k_dpmpp_2m" -> "K_DPMPP_2M"
      [] s = "k_dpmpp_2s_ancestral" -> "K_DPMPP_2S_ANCESTRAL"
      [] s = "k_dpm_2" -> "K_DPM_2"
      [] s = "k_dpm_2_ancestral" -> "K_DPM_2_ANCESTRAL"
      [] s = "k_euler" -> "K_EULER"
      [] s = "k_euler_ancestral" -> "K_EULER_ANCESTRAL"
      [] s = "k_heun" -> "K_HEUN"
      [] s = "k_lms" -> "K_LMS"
      [] s = "mask_image_black" -> "MASK_IMAGE_BLACK"
      [] s = "mask_image_white" -> "MASK_IMAGE_WHITE"
      [] s = "init_image_alpha" -> "INIT_IMAGE_ALPHA"
      [] s = "image_strength" -> "IMAGE_STRENGTH"
      [] s = "step_schedule" -> "STEP_SCHEDULE"

\* struct TextPrompt { text, weight }
TextPrompt(text, weight) == [text |-> text, weight |-> weight]

-----------------------------------------------------------------------------
(* generation/text_to_img.rs: TextToImageBuilder *)

\* TextToImageBuilder::new() = Self::default()
TextToImageBuilder_new ==
    [height |-> None, width |-> None, text_prompts |-> <<>>, cfg_scale |-> None,
     clip_guidance_preset |-> None, sampler |-> None, samples |-> None,
     seed |-> None, steps |-> None, style_preset |-> None, extras |-> None]

\* faulty variant: the two checks of height() in the other order
TextToImageBuilder_height_MinimumFirst(self, height) ==
    IF height < 128 THEN Err(HeightLessThan128(height))
    ELSE IF height % 64 # 0 THEN Err(HeightNotMultipleOf64(height))
    ELSE Ok([self EXCEPT !.height = Some(height)])

TextToImageBuilder_height(self, height) ==
    IF height % 64 # 0 THEN Err(HeightNotMultipleOf64(height))
    ELSE IF height < 128 THEN Err(HeightLessThan128(height))
    ELSE Ok([self EXCEPT !.height = Some(height)])

\* faulty variant: width() without its minimum check
TextToImageBuilder_width_NoMinimum(self, width) ==
    IF width % 64 # 0 THEN Err(WidthNotMultipleOf64(width))
    ELSE Ok([self EXCEPT !.width = Some(width)])

TextToImageBuilder_width(self, width) ==
    IF width % 64 # 0 THEN Err(WidthNotMultipleOf64(width))
    ELSE IF width < 128 THEN Err(WidthLessThan128(width))
    ELSE Ok([self EXCEPT !.width = Some(width)])

TextToImageBuilder_text_prompt(self, text_prompt, weight) ==
    Ok([self EXCEPT !.text_prompts = Append(@, TextPrompt(text_prompt, weight))])

TextToImageBuilder_cfg_scale(self, cfg_scale) ==
    IF cfg_scale > 35 THEN Err(CfgScaleGreaterThan35(cfg_scale))
    ELSE Ok([self EXCEPT !.cfg_scale = Some(cfg_scale)])

TextToImageBuilder_clip_guidance_preset(self, clip_guidance_preset) ==
    Ok([self EXCEPT !.clip_guidance_preset = Some(clip_guidance_preset)])

TextToImageBuilder_sampler(self, sampler) ==
    Ok([self EXCEPT !.sampler = Some(sampler)])

TextToImageBuilder_samples(self, samples) ==
    IF samples > 10 THEN Err(SamplesGreaterThan10(samples))
    ELSE Ok([self EXCEPT !.samples = Some(samples)])

TextToImageBuilder_seed(self, seed) ==
    Ok([self EXCEPT !.seed = Some(seed)])

TextToImageBuilder_steps(self, steps) ==
    IF steps > 150 THEN Err(StepsGreaterThan150(steps))
    ELSE IF steps < 10 THEN Err(StepsLessThan10(steps))
    ELSE Ok([self EXCEPT !.steps = Some(steps)])

TextToImageBuilder_style_preset(self, style_preset) ==
    Ok([self EXCEPT !.style_preset = Some(style_preset)])

TextToImageBuilder_extras(self, extras) ==
    Ok([self EXCEPT !.extras = Some(extras)])

\* faulty variant: build() with the steps default of another endpoint
TextToImageBuilder_build_value_Steps30(self) ==
    [height |-> unwrap_or(self.height, 1024),
     width |-> unwrap_or(self.width, 1024),
     cfg_scale |-> unwrap_or(self.cfg_scale, 7),
     clip_guidance_preset |-> unwrap_or(self.clip_guidance_preset, "None"),
     sampler |-> unwrap_or(self.sampler, "None"),
     samples |-> unwrap_or(self.samples, 1),
     seed |-> unwrap_or(self.seed, 0),
     steps |-> unwrap_or(self.steps, 30),
     style_preset |-> unwrap(self.style_preset),
     text_prompts |-> self.text_prompts,
     extras |-> unwrap_or(self.extras, {})]

\* the TextToImage { .. } that build() returns, with the defaults of unset fields
TextToImageBuilder_build_value(self) ==
    [height |-> unwrap_or(self.height, 1024),
     width |-> unwrap_or(self.width, 1024),
     cfg_scale |-> unwrap_or(self.cfg_scale, 7),
     clip_guidance_preset |-> unwrap_or(self.clip_guidance_preset, "None"),
     sampler |-> unwrap_or(self.sampler, "None"),
     samples |-> unwrap_or(self.samples, 1),
     seed |-> unwrap_or(self.seed, 0),
     steps |-> unwrap_or(self.steps, 50),
     style_preset |-> unwrap(self.style_preset),
     text_prompts |-> self.text_prompts,
     extras |-> unwrap_or(self.extras, {})]

\* faulty variant: build() checking the prompt before the style preset
TextToImageBuilder_build_PromptFirst(self) ==
    IF self.text_prompts = <<>> \/ self.text_prompts[1].text = ""
    THEN Err(TextPromptEmpty)
    ELSE IF is_none(self.style_preset) THEN Err(StylePresetNotSet)
    ELSE Ok(TextToImageBuilder_build_value(self))

\* faulty variant: build() requiring every prompt, not only the first, to be non-empty
TextToImageBuilder_build_EveryPrompt(self) ==
    IF is_none(self.style_preset) THEN Err(StylePresetNotSet)
    ELSE IF \/ self.text_prompts = <<>>
            \/ \E i \in DOMAIN self.text_prompts : self.text_prompts[i].text = ""
         THEN Err(TextPromptEmpty)
    ELSE Ok(TextToImageBuilder_build_value(self))

TextToImageBuilder_build(self) ==
    IF is_none(self.style_preset) THEN Err(StylePresetNotSet)
    ELSE IF self.text_prompts = <<>> \/ self.text_prompts[1].text = ""
         THEN Err(TextPromptEmpty)
    ELSE Ok(TextToImageBuilder_build_value(self))

\* serde_json::to_string(&TextToImage): the fields in declaration order, as
\* <<key, value>> pairs; a field with skip_serializing_if is left out when
\* its predicate holds
JsonField(key, value) == <<<<key, value>>>>

TextToImage_to_json(self) ==
    JsonField("height", self.height)
    \o JsonField("width", self.width)
    \o JsonField("text_prompts", self.text_prompts)
    \o JsonField("cfg_scale", self.cfg_scale)
    \o JsonField("clip_guidance_preset",
                 ClipGuidancePreset_serialize(self.clip_guidance_preset))
    \o (IF Sampler_is_none(self.sampler) THEN <<>>
        ELSE JsonField("sampler", Sampler_serialize(self.sampler)))
    \o JsonField("samples", self.samples)
    \o JsonField("seed", self.seed)
    \o JsonField("steps", self.steps)
    \o JsonField("style_preset", StylePreset_serialize(self.style_preset))
    \o (IF self.extras = {} THEN <<>> ELSE JsonField("extras", self.extras))

JsonKeys(json) == {json[i][1] : i \in DOMAIN json}

\* the values the JSON text carries under `key`, one per occurrence of the key
JsonValues(json, key) == {json[i][2] : i \in {j \in DOMAIN json : json[j][1] = key}}
JsonCount(json, key) == Cardinality({j \in DOMAIN json : json[j][1] = key})

-----------------------------------------------------------------------------
(* generation/img_to_img.rs: ImageToImageBuilder *)

ImageToImageBuilder_new ==
    [init_image |-> None, init_image_mode |-> None, image_strength |-> None,
     text_prompts |-> <<>>, cfg_scale |-> None, clip_guidance_preset |-> None,
     sampler |-> None, samples |-> None, seed |-> None, steps |-> None,
     style_preset |-> None, extras |-> None]

ImageToImageBuilder_init_image_path(self, init_image_path) ==
    Ok([self EXCEPT !.init_image = Some(init_image_path)])

ImageToImageBuilder_init_image_mode(self, init_image_mode) ==
    Ok([self EXCEPT !.init_image_mode = Some(init_image_mode)])

ImageToImageBuilder_image_strength(self, image_strength) ==
    Ok([self EXCEPT !.image_strength = Some(image_strength)])

ImageToImageBuilder_cfg_scale(self, cfg_scale) ==
    IF cfg_scale > 35 THEN Err(CfgScaleGreaterThan35(cfg_scale))
    ELSE Ok([self EXCEPT !.cfg_scale = Some(cfg_scale)])

ImageToImageBuilder_clip_guidance_preset(self, clip_guidance_preset) ==
    Ok([self EXCEPT !.clip_guidance_preset = Some(clip_guidance_preset)])

ImageToImageBuilder_sampler(self, sampler) ==
    Ok([self EXCEPT !.sampler = Some(sampler)])

\* faulty variant: samples() without its limit
ImageToImageBuilder_samples_NoLimit(self, samples) ==
    Ok([self EXCEPT !.samples = Some(samples)])

ImageToImageBuilder_samples(self, samples) ==
    IF samples > 10 THEN Err(SamplesGreaterThan10(samples))
    ELSE Ok([self EXCEPT !.samples = Some(samples)])

ImageToImageBuilder_seed(self, seed) ==
    Ok([self EXCEPT !.seed = Some(seed)])

\* faulty variant: steps() with the lower limit of the other builders
ImageToImageBuilder_steps_WithMinimum(self, steps) ==
    IF steps > 150 THEN Err(StepsGreaterThan150(steps))
    ELSE IF steps < 10 THEN Err(StepsLessThan10(steps))
    ELSE Ok([self EXCEPT !.steps = Some(steps)])

ImageToImageBuilder_steps(self, steps) ==
    IF steps > 150 THEN Err(StepsGreaterThan150(steps))
    ELSE Ok([self EXCEPT !.steps = Some(steps)])

ImageToImageBuilder_style_preset(self, style_preset) ==
    Ok([self EXCEPT !.style_preset = Some(style_preset)])

ImageToImageBuilder_text_prompt(self, text_prompt, weight) ==
    Ok([self EXCEPT !.text_prompts = Append(@, TextPrompt(text_prompt, weight))])

\* the ImageToImage { .. } that build() returns, with the defaults of unset fields
ImageToImageBuilder_build_value(self) ==
    [text_prompts |-> self.text_prompts,
     init_image |-> unwrap(self.init_image),
     init_image_mode |-> unwrap_or(self.init_image_mode, "ImageStrength"),
     image_strength |-> unwrap_or(self.image_strength, 0),
     cfg_scale |-> unwrap_or(self.cfg_scale, 7),
     clip_guidance_preset |-> unwrap_or(self.clip_guidance_preset, "None"),
     sampler |-> unwrap_or(self.sampler, "None"),
     samples |-> unwrap_or(self.samples, 1),
     seed |-> unwrap_or(self.seed, 0),
     steps |-> unwrap_or(self.steps, 50),
     style_preset |-> unwrap(self.style_preset),
     extras |-> unwrap_or(self.extras, {})]

\* faulty variant: build() checking the style preset before the init image
ImageToImageBuilder_build_StyleFirst(self) ==
    IF is_none(self.style_preset) THEN Err(StylePresetNotSet)
    ELSE IF is_none(self.init_image) THEN Err(InitImagePathNotSet)
    ELSE IF self.text_prompts = <<>> \/ self.text_prompts[1].text = ""
         THEN Err(TextPromptEmpty)
    ELSE Ok(ImageToImageBuilder_build_value(self))

ImageToImageBuilder_build(self) ==
    IF is_none(self.init_image) THEN Err(InitImagePathNotSet)
    ELSE IF is_none(self.style_preset) THEN Err(StylePresetNotSet)
    ELSE IF self.text_prompts = <<>> \/ self.text_prompts[1].text = ""
         THEN Err(TextPromptEmpty)
    ELSE Ok(ImageToImageBuilder_build_value(self))

-----------------------------------------------------------------------------
(* generation/masking.rs: MaskerBuilder *)

MaskerBuilder_new ==
    [text_prompts |-> <<>>, init_image |-> None, mask_source |-> None,
     mask_image |-> None, cfg_scale |-> None, clip_guidance_preset |-> None,
     sampler |-> None, samples |-> None, seed |-> None, steps |-> None,
     style_preset |-> None, extras |-> None]

MaskerBuilder_init_image_path(self, init_image_path) ==
    Ok([self EXCEPT !.init_image = Some(init_image_path)])

MaskerBuilder_mask_source(self, mask_src) ==
    Ok([self EXCEPT !.mask_source = Some(mask_src)])

MaskerBuilder_mask_image(self, mask_img) ==
    Ok([self EXCEPT !.mask_image = Some(mask_img)])

\* faulty variant: the limit of cfg_scale() off by one
MaskerBuilder_cfg_scale_OffByOne(self, cfg_scale) ==
    IF cfg_scale >= 35 THEN Err(CfgScaleGreaterThan35(cfg_scale))
    ELSE Ok([self EXCEPT !.cfg_scale = Some(cfg_scale)])

MaskerBuilder_cfg_scale(self, cfg_scale) ==
    IF cfg_scale > 35 THEN Err(CfgScaleGreaterThan35(cfg_scale))
    ELSE Ok([self EXCEPT !.cfg_scale = Some(cfg_scale)])

MaskerBuilder_clip_guidance_preset(self, clip_guidance_preset) ==
    Ok([self EXCEPT !.clip_guidance_preset = Some(clip_guidance_preset)])

MaskerBuilder_sampler(self, sampler) ==
    Ok([self EXCEPT !.sampler = Some(sampler)])

MaskerBuilder_samples(self, samples) ==
    IF samples > 10 THEN Err(SamplesGreaterThan10(samples))
    ELSE Ok([self EXCEPT !.samples = Some(samples)])

MaskerBuilder_seed(self, seed) ==
    Ok([self EXCEPT !.seed = Some(seed)])

MaskerBuilder_steps(self, steps) ==
    IF steps > 150 THEN Err(StepsGreaterThan150(steps))
    ELSE IF steps < 10 THEN Err(StepsLessThan10(steps))
    ELSE Ok([self EXCEPT !.steps = Some(steps)])

MaskerBuilder_style_preset(self, style_preset) ==
    Ok([self EXCEPT !.style_preset = Some(style_preset)])

MaskerBuilder_text_prompt(self, text_prompt, weight) ==
    Ok([self EXCEPT !.text_prompts = Append(@, TextPrompt(text_prompt, weight))])

\* the Masker { .. } that build() returns, with the defaults of unset fields
MaskerBuilder_build_value(self) ==
    [text_prompts |-> self.text_prompts,
     init_image |-> unwrap(self.init_image),
     mask_source |-> unwrap(self.mask_source),
     mask_image |-> unwrap_or(self.mask_image, ""),
     cfg_scale |-> unwrap_or(self.cfg_scale, 7),
     clip_guidance_preset |-> unwrap_or(self.clip_guidance_preset, "None"),
     sampler |-> unwrap_or(self.sampler, "None"),
     samples |-> unwrap_or(self.samples, 1),
     seed |-> unwrap_or(self.seed, 0),
     steps |-> unwrap_or(self.steps, 50),
     style_preset |-> unwrap(self.style_preset),
     extras |-> unwrap_or(self.extras, {})]

\* faulty variant: build() checking the mask source before the text prompt
MaskerBuilder_build_MaskSourceFirst(self) ==
    IF is_none(self.init_image) THEN Err(InitImagePathNotSet)
    ELSE IF is_none(self.style_preset) THEN Err(StylePresetNotSet)
    ELSE IF is_none(self.mask_source) THEN Err(MaskSourceNotSet)
    ELSE IF self.text_prompts = <<>> \/ self.text_prompts[1].text = ""
         THEN Err(TextPromptEmpty)
    ELSE IF /\ (\/ self.mask_source = Some("MaskImageBlack")
                \/ self.mask_source = Some("MaskImageWhite"))
            /\ is_none(self.mask_image)
         THEN Err(MaskImagePathNotSet)
    ELSE Ok(MaskerBuilder_build_value(self))

MaskerBuilder_build(self) ==
    IF is_none(self.init_image) THEN Err(InitImagePathNotSet)
    ELSE IF is_none(self.style_preset) THEN Err(StylePresetNotSet)
    ELSE IF self.text_prompts = <<>> \/ self.text_prompts[1].text = ""
         THEN Err(TextPromptEmpty)
    ELSE IF is_none(self.mask_source) THEN Err(MaskSourceNotSet)
    ELSE IF /\ (\/ self.mask_source = Some("MaskImageBlack")
                \/ self.mask_source = Some("MaskImageWhite"))
            /\ is_none(self.mask_image)
         THEN Err(MaskImagePathNotSet)
    ELSE Ok(MaskerBuilder_build_value(self))

-----------------------------------------------------------------------------
(* generation/upscale.rs: UpscalerBuilder *)

UpscalerBuilder_new ==
    [image |-> None, height |-> None, width |-> None, text_prompts |-> <<>>,
     cfg_scale |-> None, seed |-> None, steps |-> None]

UpscalerBuilder_image(self, image) ==
    Ok([self EXCEPT !.image = Some(image)])

\* faulty variant: height() also clears the width
UpscalerBuilder_height_ClearsWidth(self, height) ==
    IF height < 512 THEN Err(UpscaleHeightLessThan512(height))
    ELSE Ok([self EXCEPT !.height = Some(height), !.width = None])

UpscalerBuilder_height(self, height) ==
    IF height < 512 THEN Err(UpscaleHeightLessThan512(height))
    ELSE Ok([self EXCEPT !.height = Some(height)])

UpscalerBuilder_width(self, width) ==
    IF width < 512 THEN Err(UpscaleWidthLessThan512(width))
    ELSE Ok([self EXCEPT !.width = Some(width)])

UpscalerBuilder_text_prompt(self, text, weight) ==
    Ok([self EXCEPT !.text_prompts = Append(@, TextPrompt(text, weight))])

UpscalerBuilder_cfg_scale(self, cfg_scale) ==
    IF cfg_scale > 35 THEN Err(CfgScaleGreaterThan35(cfg_scale))
    ELSE Ok([self EXCEPT !.cfg_scale = Some(cfg_scale)])

UpscalerBuilder_seed(self, seed) ==
    Ok([self EXCEPT !.seed = Some(seed)])

UpscalerBuilder_steps(self, steps) ==
    IF steps > 150 THEN Err(StepsGreaterThan150(steps))
    ELSE IF steps < 10 THEN Err(StepsLessThan10(steps))
    ELSE Ok([self EXCEPT !.steps = Some(steps)])

\* faulty variant: an unset height or width is sent as the smallest one
UpscalerBuilder_build_value_MinimumDims(self) ==
    [image |-> unwrap(self.image),
     height |-> unwrap_or(self.height, 512),
     width |-> unwrap_or(self.width, 512),
     text_prompts |-> self.text_prompts,
     cfg_scale |-> unwrap_or(self.cfg_scale, 7),
     seed |-> unwrap_or(self.seed, 0),
     steps |-> unwrap_or(self.steps, 50)]

\* the Upscaler { .. } that build() returns, with the defaults of unset fields
UpscalerBuilder_build_value(self) ==
    [image |-> unwrap(self.image),
     height |-> unwrap_or(self.height, 0),
     width |-> unwrap_or(self.width, 0),
     text_prompts |-> self.text_prompts,
     cfg_scale |-> unwrap_or(self.cfg_scale, 7),
     seed |-> unwrap_or(self.seed, 0),
     steps |-> unwrap_or(self.steps, 50)]

\* faulty variant: build() without the width/height conflict check
UpscalerBuilder_build_NoConflict(self) ==
    IF is_none(self.image) THEN Err(UpscaleImagePathNotSet)
    ELSE Ok(UpscalerBuilder_build_value(self))

UpscalerBuilder_build(self) ==
    IF is_none(self.image) THEN Err(UpscaleImagePathNotSet)
    ELSE IF is_some(self.width) /\ is_some(self.height)
         THEN Err(UpscaleWidthHeightConflict)
    ELSE Ok(UpscalerBuilder_build_value(self))

-----------------------------------------------------------------------------
(* support: MultipartFormData, the multipart/form-data accumulator.  The     *)
(* body is the sequence of its elements: each part keeps the boundary line  *)
(* that introduces it, its field name and its content.                      *)

\* the boundary: a fixed prefix followed by a random u64 in decimal
MultipartFormData_new(rnd) ==
    [boundary |-> "-----------------------------" \o rnd, body |-> <<>>]

add_text(m, name, value) ==
    Ok([m EXCEPT !.body = Append(@, [part |-> "text", boundary |-> m.boundary,
                                     name |-> name, value |-> value])])

\* the extension of a path (None when it has none)
extension(path) ==
    CASE path = "init_image.png" -> Some("png")
      [] path = "mask.png" -> Some("png")
      [] OTHER -> None

\* fs: the paths whose file can be opened and read to the end
add_file(m, name, path, fs) ==
    IF is_none(extension(path)) \/ path \notin fs THEN Err(IoError(path))
    ELSE Ok([m EXCEPT !.body =
                Append(@, [part |-> "file", boundary |-> m.boundary, name |-> name,
                           filename |-> path,
                           content_type |-> <<"image/", unwrap(extension(path))>>,
                           content |-> <<"bytes of", path>>])])

\* faulty variant: the closing marker is written twice
end_body_Twice(m) ==
    Ok([m EXCEPT !.body = @ \o <<[part |-> "end", boundary |-> m.boundary],
                                 [part |-> "end", boundary |-> m.boundary]>>])

end_body(m) ==
    Ok([m EXCEPT !.body = Append(@, [part |-> "end", boundary |-> m.boundary])])

\* the body holds a file part for the form field `name`
HasFilePart(body, name) ==
    \E i \in DOMAIN body : body[i].part = "file" /\ body[i].name = name

-----------------------------------------------------------------------------
(* generation/masking.rs: Masker::to_multipart_form_data *)

\* for (key, value) in &self.extras: one add_text per entry (the model's maps
\* hold at most one entry, so the iteration order of the map is immaterial)
RECURSIVE add_extras(_, _)
add_extras(m, extras) ==
    IF extras = {} THEN m
    ELSE LET kv == CHOOSE e \in extras : TRUE
         IN  add_extras(add_text(m, kv[1], kv[2]).val, extras \ {kv})

\* format!("text_prompts[{}][text]", i) and format!("text_prompts[{}][weight]", i)
prompt_part_name(i, field) == "text_prompts[" \o ToString(i) \o "][" \o field \o "]"

\* for (i, text_prompt) in self.text_prompts.iter().enumerate(), from index i
RECURSIVE add_text_prompts(_, _, _)
add_text_prompts(m, text_prompts, i) ==
    IF i > Len(text_prompts) THEN m
    ELSE LET t == add_text(m, prompt_part_name(i - 1, "text"),
                           text_prompts[i].text).val
             w == add_text(t, prompt_part_name(i - 1, "weight"),
                           text_prompts[i].weight).val
         IN  add_text_prompts(w, text_prompts, i + 1)

\* faulty variant: the mask image is encoded whenever a path for it was given
Masker_has_mask_file_IfGiven(self) == self.mask_image # ""

\* if self.mask_source != MaskSource::InitImageAlpha: the mask_image file
\* part is encoded
Masker_has_mask_file(self) == self.mask_source # "InitImageAlpha"

Masker_to_multipart_form_data(self, rnd, fs) ==
    LET m0 == MultipartFormData_new(rnd)
        m1 == add_text(m0, "mask_source",
                       to_ascii_uppercase(MaskSource_fmt(self.mask_source))).val
        m2 == add_text(m1, "cfg_scale", self.cfg_scale).val
        m3 == add_text(m2, "samples", self.samples).val
        m4 == add_text(m3, "seed", self.seed).val
        m5 == add_text(m4, "steps", self.steps).val
        m6 == add_text(m5, "style_preset", StylePreset_fmt(self.style_preset)).val
        m7 == add_text(m6, "clip_guidance_preset",
                       to_ascii_uppercase(
                           ClipGuidancePreset_fmt(self.clip_guidance_preset))).val
        m8 == IF self.sampler # "None"
              THEN add_text(m7, "sampler", Sampler_fmt(self.sampler)).val
              ELSE m7
        m9 == add_extras(m8, self.extras)
        m10 == add_text_prompts(m9, self.text_prompts, 1)
        f1 == add_file(m10, "init_image", self.init_image, fs)
        f2 == IF Masker_has_mask_file(self)
              THEN add_file(f1.val, "mask_image", self.mask_image, fs)
              ELSE f1
    IN  IF f1.tag = "Err" THEN f1
        ELSE IF f2.tag = "Err" THEN f2
        ELSE end_body(f2.val)

-----------------------------------------------------------------------------
(* generation/img_to_img.rs and generation/upscale.rs: the bodies written    *)
(* inline, part by part, into a byte vector                                  *)

\* format!("-----------------------------{}", rand::thread_rng().gen::<u64>())
format_boundary(rnd) == "-----------------------------" \o rnd

\* write!(data, "--{}\r\n", boundary) and the write! of one form field
write_text(data, boundary, name, value) ==
    Append(data, [part |-> "text", boundary |-> boundary,
                  name |-> name, value |-> value])

\* the writes of one file field: its header with the fixed Content-Type
\* image/png, then File::open and read_to_end, which fail outside fs
write_file(data, boundary, name, path, fs) ==
    IF path \notin fs THEN Err(IoError(path))
    ELSE Ok(Append(data, [part |-> "file", boundary |-> boundary, name |-> name,
                          filename |-> path, content_type |-> <<"image/", "png">>,
                          content |-> <<"bytes of", path>>]))

\* write!(data, "--{}--\r\n", boundary)
write_end(data, boundary) == Append(data, [part |-> "end", boundary |-> boundary])

\* faulty variant: the weight part of each prompt is written before its text part
RECURSIVE write_text_prompts_WeightFirst(_, _, _, _)
write_text_prompts_WeightFirst(data, boundary, text_prompts, i) ==
    IF i > Len(text_prompts) THEN data
    ELSE LET w == write_text(data, boundary, prompt_part_name(i - 1, "weight"),
                             text_prompts[i].weight)
             t == write_text(w, boundary, prompt_part_name(i - 1, "text"),
                             text_prompts[i].text)
         IN  write_text_prompts_WeightFirst(t, boundary, text_prompts, i + 1)

\* for (i, prompts) in self.text_prompts.iter().enumerate(), from index i
RECURSIVE write_text_prompts(_, _, _, _)
write_text_prompts(data, boundary, text_prompts, i) ==
    IF i > Len(text_prompts) THEN data
    ELSE LET t == write_text(data, boundary, prompt_part_name(i - 1, "text"),
                             text_prompts[i].text)
             w == write_text(t, boundary, prompt_part_name(i - 1, "weight"),
                             text_prompts[i].weight)
         IN  write_text_prompts(w, boundary, text_prompts, i + 1)

\* img_to_img.rs: impl Display for ImageMode
ImageMode_fmt(m) ==
    CASE m = "ImageStrength" -> "image_strength"
      [] m = "StepSchedule" -> "step_schedule"

ImageToImage_to_multipart_form_data(self, boundary, fs) ==
    LET d0 == write_text_prompts(<<>>, boundary, self.text_prompts, 1)
        d1 == write_text(d0, boundary, "init_image_mode",
                         to_ascii_uppercase(ImageMode_fmt(self.init_image_mode)))
        d2 == IF self.init_image_mode = "ImageStrength"
              THEN write_text(d1, boundary, "image_strength", self.image_strength)
              ELSE d1
        d3 == write_text(d2, boundary, "cfg_scale", self.cfg_scale)
        d4 == write_text(d3, boundary, "samples", self.samples)
        d5 == write_text(d4, boundary, "steps", self.steps)
        d6 == IF self.sampler # "None"
              THEN write_text(d5, boundary, "sampler",
                              to_ascii_uppercase(Sampler_fmt(self.sampler)))
              ELSE d5
        d7 == write_text(d6, boundary, "clip_guidance_preset",
                         to_ascii_uppercase(
                             ClipGuidancePreset_fmt(self.clip_guidance_preset)))
        d8 == write_text(d7, boundary, "style_preset",
                         StylePreset_fmt(self.style_preset))
        d9 == write_text(d8, boundary, "seed", self.seed)
        f == write_file(d9, boundary, "init_image", self.init_image, fs)
    IN  IF f.tag = "Err" THEN f ELSE Ok(write_end(f.val, boundary))

\* upscale.rs: enum UpscaleEngine
UpscaleEngines == {"EsrganV1X2Plus", "StableDiffusionX4LatentUpscaler"}

\* upscale.rs: impl Display for UpscaleEngine
UpscaleEngine_fmt(e) ==
    CASE e = "EsrganV1X2Plus" -> "esrgan-v1-x2plus"
      [] e = "StableDiffusionX4LatentUpscaler" -> "stable-diffusion-x4-latent-upscaler"

\* faulty variant: the seed part is written for every engine
Upscaler_takes_generation_fields_SeedAlways(engine, field) ==
    engine = "StableDiffusionX4LatentUpscaler" \/ field = "seed"

\* if engine == UpscaleEngine::StableDiffusionX4LatentUpscaler, the guard of
\* the text_prompts, cfg_scale, steps and seed writes
Upscaler_takes_generation_fields(engine, field) ==
    engine = "StableDiffusionX4LatentUpscaler"

Upscaler_to_multipart_form_data(self, boundary, engine, fs) ==
    LET d0 == IF Upscaler_takes_generation_fields(engine, "text_prompts")
              THEN write_text_prompts(<<>>, boundary, self.text_prompts, 1)
              ELSE <<>>
        d1 == IF self.height # 0
              THEN write_text(d0, boundary, "height", self.height) ELSE d0
        d2 == IF self.width # 0
              THEN write_text(d1, boundary, "width", self.width) ELSE d1
        d3 == IF Upscaler_takes_generation_fields(engine, "cfg_scale")
              THEN write_text(d2, boundary, "cfg_scale", self.cfg_scale) ELSE d2
        d4 == IF Upscaler_takes_generation_fields(engine, "steps")
              THEN write_text(d3, boundary, "steps", self.steps) ELSE d3
        d5 == IF Upscaler_takes_generation_fields(engine, "seed")
              THEN write_text(d4, boundary, "seed", self.seed) ELSE d4
        f == write_file(d5, boundary, "image", self.image, fs)
    IN  IF f.tag = "Err" THEN f ELSE Ok(write_end(f.val, boundary))

-----------------------------------------------------------------------------
(* The state machine: one call chain at a time -- a fresh builder, setter   *)
(* calls, build(), serialization of the finalized request.                  *)

NewBuilder(k) ==
    CASE k = "TextToImageBuilder" -> TextToImageBuilder_new
      [] k = "ImageToImageBuilder" -> ImageToImageBuilder_new
      [] k = "MaskerBuilder" -> MaskerBuilder_new
      [] k = "UpscalerBuilder" -> UpscalerBuilder_new

Start(k) ==
    /\ kind = k
    /\ b = NewBuilder(k)
    /\ pc = "accumulating"
    /\ res = [op |-> "new", arg |-> <<>>, err |-> None]
    /\ req = None
    /\ out = None
    /\ ncalls = 0

\* no MultipartFormData is being filled by hand
NoEncoder == enc = None

\* no API operation was started
ClientIdle ==
    /\ call = [op |-> "none", arg |-> <<>>]
    /\ cpc = "idle"
    /\ client = None
    /\ payload = None
    /\ trace = <<>>
    /\ resp = None
    /\ sent = None
    /\ ret = None

\* the concurrent calls
TaskIds == {1, 2}

\* a call that was not made yet
IdleTask ==
    [op |-> "none", cpc |-> "idle", client |-> None, conn |-> None,
     trace |-> <<>>, resp |-> None, ret |-> None]

\* no concurrent call was made
TasksIdle ==
    /\ tasks = [task \in TaskIds |-> IdleTask]
    /\ conns = <<>>

\* no Image is being saved
SaveIdle ==
    /\ img = <<>>
    /\ disk = None
    /\ prior = None
    /\ spc = "idle"
    /\ buf = <<>>
    /\ inflight = None
    /\ sret = None

Init ==
    /\ \E k \in Kinds : Start(k)
    /\ NoEncoder
    /\ env = Some("sk-test")
    /\ ClientIdle
    /\ SaveIdle
    /\ TasksIdle

\* XBuilder::new() starts the next call chain once the previous one ended
New ==
    /\ pc # "accumulating"
    /\ \E k \in Kinds :
          /\ kind' = k
          /\ b' = NewBuilder(k)
    /\ pc' = "accumulating"
    /\ res' = [op |-> "new", arg |-> <<>>, err |-> None]
    /\ req' = None
    /\ out' = None
    /\ ncalls' = 0
    /\ UNCHANGED <<enc, clientVars, saveVars, taskVars>>

\* a setter call `b.op(arg)` whose value is r: Ok(builder) moves the builder
\* back to the caller, Err(e) drops it
Setter(k, op, arg, r) ==
    /\ kind = k
    /\ pc = "accumulating"
    /\ ncalls < MaxCalls
    /\ res' = [op |-> op, arg |-> arg,
               err |-> IF r.tag = "Ok" THEN None ELSE Some(r.val)]
    /\ IF r.tag = "Ok"
       THEN b' = r.val /\ pc' = "accumulating" /\ ncalls' = ncalls + 1
       ELSE b' = None /\ pc' = "failed" /\ ncalls' = 0
    /\ UNCHANGED <<kind, req, out, enc, clientVars, saveVars, taskVars>>

\* `b.build()` whose value is r: the builder is consumed either way
Build(k, r) ==
    /\ kind = k
    /\ pc = "accumulating"
    /\ res' = [op |-> "build", arg |-> <<>>,
               err |-> IF r.tag = "Ok" THEN None ELSE Some(r.val)]
    /\ b' = None
    /\ ncalls' = 0
    /\ IF r.tag = "Ok"
       THEN req' = Some(r.val) /\ pc' = "built"
       ELSE req' = None /\ pc' = "failed"
    /\ UNCHANGED <<kind, out, enc, clientVars, saveVars, taskVars>>

TextToImageBuilder_Setters ==
    LET k == "TextToImageBuilder" IN
    \/ \E v \in Dims : Setter(k, "height", <<v>>, TextToImageBuilder_height(b, v))
    \/ \E v \in Dims : Setter(k, "width", <<v>>, TextToImageBuilder_width(b, v))
    \/ \E p \in PromptArgs :
          Setter(k, "text_prompt", p, TextToImageBuilder_text_prompt(b, p[1], p[2]))
    \/ \E v \in CfgScales :
          Setter(k, "cfg_scale", <<v>>, TextToImageBuilder_cfg_scale(b, v))
    \/ \E v \in ClipGuidancePresets :
          Setter(k, "clip_guidance_preset", <<v>>,
                 TextToImageBuilder_clip_guidance_preset(b, v))
    \/ \E v \in Samplers : Setter(k, "sampler", <<v>>, TextToImageBuilder_sampler(b, v))
    \/ \E v \in SamplesVals :
          Setter(k, "samples", <<v>>, TextToImageBuilder_samples(b, v))
    \/ \E v \in Seeds : Setter(k, "seed", <<v>>, TextToImageBuilder_seed(b, v))
    \/ \E v \in StepsVals : Setter(k, "steps", <<v>>, TextToImageBuilder_steps(b, v))
    \/ \E v \in StylePresets :
          Setter(k, "style_preset", <<v>>, TextToImageBuilder_style_preset(b, v))
    \/ \E v \in ExtrasVals :
          Setter(k, "extras", <<v>>, TextToImageBuilder_extras(b, v))

TextToImageBuilder_Build ==
    /\ kind = "TextToImageBuilder" /\ pc = "accumulating"
    /\ Build("TextToImageBuilder", TextToImageBuilder_build(b))

ImageToImageBuilder_Setters ==
    LET k == "ImageToImageBuilder" IN
    \/ \E v \in InitPaths :
          Setter(k, "init_image_path", <<v>>, ImageToImageBuilder_init_image_path(b, v))
    \/ \E v \in ImageModes :
          Setter(k, "init_image_mode", <<v>>, ImageToImageBuilder_init_image_mode(b, v))
    \/ \E v \in ImageStrengths :
          Setter(k, "image_strength", <<v>>, ImageToImageBuilder_image_strength(b, v))
    \/ \E v \in CfgScales :
          Setter(k, "cfg_scale", <<v>>, ImageToImageBuilder_cfg_scale(b, v))
    \/ \E v \in ClipGuidancePresets :
          Setter(k, "clip_guidance_preset", <<v>>,
                 ImageToImageBuilder_clip_guidance_preset(b, v))
    \/ \E v \in Samplers : Setter(k, "sampler", <<v>>, ImageToImageBuilder_sampler(b, v))
    \/ \E v \in SamplesVals :
          Setter(k, "samples", <<v>>, ImageToImageBuilder_samples(b, v))
    \/ \E v \in Seeds : Setter(k, "seed", <<v>>, ImageToImageBuilder_seed(b, v))
    \/ \E v \in StepsVals : Setter(k, "steps", <<v>>, ImageToImageBuilder_steps(b, v))
    \/ \E v \in StylePresets :
          Setter(k, "style_preset", <<v>>, ImageToImageBuilder_style_preset(b, v))
    \/ \E p \in PromptArgs :
          Setter(k, "text_prompt", p, ImageToImageBuilder_text_prompt(b, p[1], p[2]))

ImageToImageBuilder_Build ==
    /\ kind = "ImageToImageBuilder" /\ pc = "accumulating"
    /\ Build("ImageToImageBuilder", ImageToImageBuilder_build(b))

MaskerBuilder_Setters ==
    LET k == "MaskerBuilder" IN
    \/ \E v \in InitPaths :
          Setter(k, "init_image_path", <<v>>, MaskerBuilder_init_image_path(b, v))
    \/ \E v \in MaskSources :
          Setter(k, "mask_source", <<v>>, MaskerBuilder_mask_source(b, v))
    \/ \E v \in MaskPaths : Setter(k, "mask_image", <<v>>, MaskerBuilder_mask_image(b, v))
    \/ \E v \in CfgScales : Setter(k, "cfg_scale", <<v>>, MaskerBuilder_cfg_scale(b, v))
    \/ \E v \in ClipGuidancePresets :
          Setter(k, "clip_guidance_preset", <<v>>,
                 MaskerBuilder_clip_guidance_preset(b, v))
    \/ \E v \in Samplers : Setter(k, "sampler", <<v>>, MaskerBuilder_sampler(b, v))
    \/ \E v \in SamplesVals : Setter(k, "samples", <<v>>, MaskerBuilder_samples(b, v))
    \/ \E v \in Seeds : Setter(k, "seed", <<v>>, MaskerBuilder_seed(b, v))
    \/ \E v \in StepsVals : Setter(k, "steps", <<v>>, MaskerBuilder_steps(b, v))
    \/ \E v \in StylePresets :
          Setter(k, "style_preset", <<v>>, MaskerBuilder_style_preset(b, v))
    \/ \E p \in PromptArgs :
          Setter(k, "text_prompt", p, MaskerBuilder_text_prompt(b, p[1], p[2]))

MaskerBuilder_Build ==
    /\ kind = "MaskerBuilder" /\ pc = "accumulating"
    /\ Build("MaskerBuilder", MaskerBuilder_build(b))

UpscalerBuilder_Setters ==
    LET k == "UpscalerBuilder" IN
    \/ \E v \in InitPaths : Setter(k, "image", <<v>>, UpscalerBuilder_image(b, v))
    \/ \E v \in UpscaleDims : Setter(k, "height", <<v>>, UpscalerBuilder_height(b, v))
    \/ \E v \in UpscaleDims : Setter(k, "width", <<v>>, UpscalerBuilder_width(b, v))
    \/ \E p \in PromptArgs :
          Setter(k, "text_prompt", p, UpscalerBuilder_text_prompt(b, p[1], p[2]))
    \/ \E v \in CfgScales : Setter(k, "cfg_scale", <<v>>, UpscalerBuilder_cfg_scale(b, v))
    \/ \E v \in Seeds : Setter(k, "seed", <<v>>, UpscalerBuilder_seed(b, v))
    \/ \E v \in StepsVals : Setter(k, "steps", <<v>>, UpscalerBuilder_steps(b, v))

UpscalerBuilder_Build ==
    /\ kind = "UpscalerBuilder" /\ pc = "accumulating"
    /\ Build("UpscalerBuilder", UpscalerBuilder_build(b))

\* TextToImage::to_json(self): the request is moved into the JSON text
TextToImage_ToJson ==
    /\ kind = "TextToImageBuilder"
    /\ pc = "built"
    /\ out' = Some(TextToImage_to_json(unwrap(req)))
    /\ req' = None
    /\ pc' = "encoded"
    /\ res' = [op |-> "to_json", arg |-> <<>>, err |-> None]
    /\ UNCHANGED <<kind, b, ncalls, enc, clientVars, saveVars, taskVars>>

\* the random u64 of a boundary, as its decimal text: the ends of the range
RandU64 == {"0", "18446744073709551615"}

\* Masker::to_multipart_form_data(&self): the request stays with the caller
Masker_ToMultipart ==
    /\ kind = "MaskerBuilder"
    /\ pc = "built"
    /\ \E rnd \in RandU64, fs \in SUBSET Paths :
          LET r == Masker_to_multipart_form_data(unwrap(req), rnd, fs) IN
          /\ res' = [op |-> "to_multipart_form_data", arg |-> <<>>,
                     err |-> IF r.tag = "Ok" THEN None ELSE Some(r.val)]
          /\ IF r.tag = "Ok"
             THEN out' = Some(r.val) /\ pc' = "encoded"
             ELSE out' = None /\ pc' = "failed"
    /\ UNCHANGED <<kind, b, req, ncalls, enc, clientVars, saveVars, taskVars>>

\* ImageToImage::to_multipart_form_data(&self, boundary)
ImageToImage_ToMultipart ==
    /\ kind = "ImageToImageBuilder"
    /\ pc = "built"
    /\ \E rnd \in RandU64, fs \in SUBSET Paths :
          LET r == ImageToImage_to_multipart_form_data(
                       unwrap(req), format_boundary(rnd), fs) IN
          /\ res' = [op |-> "to_multipart_form_data", arg |-> <<rnd>>,
                     err |-> IF r.tag = "Ok" THEN None ELSE Some(r.val)]
          /\ IF r.tag = "Ok"
             THEN out' = Some(r.val) /\ pc' = "encoded"
             ELSE out' = None /\ pc' = "failed"
    /\ UNCHANGED <<kind, b, req, ncalls, enc, clientVars, saveVars, taskVars>>

\* Upscaler::to_multipart_form_data(&self, boundary, engine)
Upscaler_ToMultipart ==
    /\ kind = "UpscalerBuilder"
    /\ pc = "built"
    /\ \E rnd \in RandU64, engine \in UpscaleEngines, fs \in SUBSET Paths :
          LET r == Upscaler_to_multipart_form_data(
                       unwrap(req), format_boundary(rnd), engine, fs) IN
          /\ res' = [op |-> "to_multipart_form_data", arg |-> <<rnd, engine>>,
                     err |-> IF r.tag = "Ok" THEN None ELSE Some(r.val)]
          /\ IF r.tag = "Ok"
             THEN out' = Some(r.val) /\ pc' = "encoded"
             ELSE out' = None /\ pc' = "failed"
    /\ UNCHANGED <<kind, b, req, ncalls, enc, clientVars, saveVars, taskVars>>

Next ==
    \/ New
    \/ TextToImageBuilder_Setters
    \/ TextToImageBuilder_Build
    \/ ImageToImageBuilder_Setters
    \/ ImageToImageBuilder_Build
    \/ MaskerBuilder_Setters
    \/ MaskerBuilder_Build
    \/ UpscalerBuilder_Setters
    \/ UpscalerBuilder_Build
    \/ TextToImage_ToJson
    \/ Masker_ToMultipart
    \/ ImageToImage_ToMultipart
    \/ Upscaler_ToMultipart

Spec == Init /\ [][Next]_vars

-----------------------------------------------------------------------------
(* api/rest/client.rs: ClientBuilder and Client *)

\* error.rs: Error::ClientBuildError and Error::ClientSendRequestError
ClientBuildError(msg) == [variant |-> "ClientBuildError", val |-> msg]
ClientSendRequestError(value) == [variant |-> "ClientSendRequestError", val |-> value]
\* an error of another crate, boxed by `?` into the error type of Result
ForeignError(type, what) == [variant |-> type, val |-> what]

\* str::parse::<Uri>: a path with a blank in it is no URI
Uri_parse(s) ==
    IF s = "https://api.stability.ai/v1/engines list"
    THEN Err(ForeignError("InvalidUri", s))
    ELSE Ok(s)

\* str::parse::<Method>: the empty string is no method
Method_parse(s) == IF s = "" THEN Err(ForeignError("InvalidMethod", s)) ELSE Ok(s)

\* str::parse::<HeaderName>: names are normalized to lower case; a name
\* with a blank in it is rejected
HeaderName_parse(s) ==
    CASE s = "Content-Type" -> Ok("content-type")
      [] s = "x custom" -> Err(ForeignError("InvalidHeaderName", s))
      [] OTHER -> Ok(s)

\* str::parse::<HeaderValue>: a value with a line break in it is rejected
HeaderValue_parse(s) ==
    IF s = "sk\nbad" THEN Err(ForeignError("InvalidHeaderValue", s)) ELSE Ok(s)

\* impl Default for ClientBuilder: the host header is the one initial entry
ClientBuilder_default ==
    [url |-> None, method |-> None,
     headers |-> Some(<< <<"host", "api.stability.ai">> >>)]

\* faulty variant: the header replaces the last entry of the list
ClientBuilder_header_Replace(self, name, value) ==
    LET header_name == HeaderName_parse(name)
        header_value == HeaderValue_parse(value)
    IN  IF header_name.tag = "Err" THEN header_name
        ELSE IF header_value.tag = "Err" THEN header_value
        ELSE Ok([self EXCEPT !.headers =
                    Some([unwrap(@) EXCEPT ![Len(unwrap(@))] =
                             <<header_name.val, header_value.val>>])])

ClientBuilder_header(self, name, value) ==
    LET header_name == HeaderName_parse(name)
        header_value == HeaderValue_parse(value)
    IN  IF header_name.tag = "Err" THEN header_name
        ELSE IF header_value.tag = "Err" THEN header_value
        ELSE Ok([self EXCEPT !.headers =
                    Some(Append(unwrap(@), <<header_name.val, header_value.val>>))])

\* faulty variant: without an API key the builder starts with no authorization header
ClientBuilder_new_Anonymous(environment) ==
    IF is_none(environment) THEN Ok(ClientBuilder_default)
    ELSE ClientBuilder_header(ClientBuilder_default, "authorization",
                              unwrap(environment))

\* env::var("STABILITY_API_KEY")? and the authorization header made of it
ClientBuilder_new(environment) ==
    IF is_none(environment) THEN Err(ForeignError("VarError", "NotPresent"))
    ELSE ClientBuilder_header(ClientBuilder_default, "authorization",
                              unwrap(environment))

ClientBuilder_path(self, path) ==
    LET url == Uri_parse("https://api.stability.ai" \o "/v1" \o path)
    IN  IF url.tag = "Err" THEN url ELSE Ok([self EXCEPT !.url = Some(url.val)])

ClientBuilder_method(self, method) ==
    LET m == Method_parse(method)
    IN  IF m.tag = "Err" THEN m ELSE Ok([self EXCEPT !.method = Some(m.val)])

\* faulty variant: build() falling back to the bare base URL
ClientBuilder_build_BaseUrl(self) ==
    Ok([url |-> unwrap_or(self.url, "https://api.stability.ai"),
        method |-> unwrap_or(self.method, "GET"),
        headers |-> unwrap(self.headers)])

ClientBuilder_build(self) ==
    IF is_none(self.url) THEN Err(ClientBuildError("url is not set"))
    ELSE Ok([url |-> unwrap(self.url),
             method |-> unwrap_or(self.method, "GET"),
             headers |-> unwrap(self.headers)])

\* serde_json::from_slice::<serde_json::Value>: the texts that are JSON
serde_json_from_slice(bytes) ==
    IF bytes \in {"[]", "{\"artifacts\":[]}", "{\"credits\":1.0}",
                  "{\"email\":\"e\",\"id\":\"i\",\"organizations\":[],\"profile_picture\":\"p\"}"}
    THEN Ok([json |-> bytes])
    ELSE Err(ForeignError("serde_json::Error", bytes))

\* faulty variant: the body of any response is returned as data
send_request_result_AnyStatus(status, bytes) == Ok(bytes)

\* the end of send_request, once the body was read: a status other than 200
\* gives the body parsed as JSON inside ClientSendRequestError (or the parse
\* error), status 200 gives the bytes
send_request_result(status, bytes) ==
    IF status # 200
    THEN LET err_value == serde_json_from_slice(bytes)
         IN  IF err_value.tag = "Err" THEN err_value
             ELSE Err(ClientSendRequestError(err_value.val))
    ELSE Ok(bytes)

\* serde_json::from_slice::<T> for the response type T of each API function
deserialize(op, bytes) ==
    LET is(text, value) == IF bytes = text THEN Ok(value)
                           ELSE Err(ForeignError("serde_json::Error", bytes))
    IN  CASE op = "get_engines" -> is("[]", [engines |-> <<>>])
          [] op = "get_user_account" ->
                is("{\"email\":\"e\",\"id\":\"i\",\"organizations\":[],\"profile_picture\":\"p\"}",
                   [email |-> "e", id |-> "i", organizations |-> <<>>,
                    profile_picture |-> "p"])
          [] op = "get_user_balance" -> is("{\"credits\":1.0}", [credits |-> 1])
          [] op = "TextToImage::generate_once" -> Ok(bytes)
          [] OTHER -> is("{\"artifacts\":[]}", [artifacts |-> <<>>])

\* str::to_lowercase on the engine identifiers
to_lowercase(s) ==
    CASE s = "Stable-Diffusion-V1-6" -> "stable-diffusion-v1-6"
      [] s = "stable-diffusion-v1-6" -> "stable-diffusion-v1-6"

\* engine.rs, user.rs: the path of each account function
account_path(op) ==
    CASE op = "get_engines" -> "/engines/list"
      [] op = "get_user_account" -> "/user/account"
      [] op = "get_user_balance" -> "/user/balance"

\* the format!(..) that each generate() hands to path()
TextToImage_path(engine) ==
    "/generation" \o "/" \o to_lowercase(engine) \o "/text-to-image"
ImageToImage_path(engine) ==
    "/generation" \o "/" \o to_lowercase(engine) \o "/image-to-image"
Masker_path(engine) ==
    "/generation" \o "/" \o engine \o "/image-to-image" \o "/masking"
Upscaler_path(engine) ==
    "/generation" \o "/" \o UpscaleEngine_fmt(engine) \o "/image-to-image" \o "/upscale"

\* faulty variant: the header names a boundary of its own
multipart_content_type_OwnBoundary(boundary) ==
    "multipart/form-data; boundary=" \o format_boundary("0")

\* format!("{}{}", MULTIPART_FORM_DATA_BOUNDARY, boundary)
multipart_content_type(boundary) == "multipart/form-data; boundary=" \o boundary

-----------------------------------------------------------------------------
(* The API operations and the client used directly.  An operation starts    *)
(* from a finalized request (or from nothing, for the account functions),    *)
(* configures a Client and runs send_request step by step.                   *)

\* most calls on one hand-made ClientBuilder, most frames of one response
MaxClientCalls == 3
MaxFrames == 2

EnvVals == {None, Some("sk-test"), Some("sk\nbad")}
Engines == {"stable-diffusion-v1-6", "Stable-Diffusion-V1-6"}
PathArgs == {"/engines/list", "/engines list"}
MethodArgs == {"POST", ""}
HeaderArgs ==
    {<<"Content-Type", "application/json">>, <<"x custom", "1">>,
     <<"host", "example.com">>, <<"authorization", "other">>}
Statuses == {200, 201, 404}
Chunks ==
    {"[]", "{\"artifacts\":", "[]}", "{\"credits\":1.0}",
     "{\"email\":\"e\",\"id\":\"i\",\"organizations\":[],\"profile_picture\":\"p\"}"}

\* finalized requests, one or two of each kind, as their builders return them
SampleRequests ==
    {[kind |-> "TextToImageBuilder",
      req |-> TextToImageBuilder_build(
                  TextToImageBuilder_style_preset(
                      TextToImageBuilder_text_prompt(
                          TextToImageBuilder_new, "a castle", 1).val,
                      "Anime").val).val],
     [kind |-> "ImageToImageBuilder",
      req |-> ImageToImageBuilder_build(
                  ImageToImageBuilder_style_preset(
                      ImageToImageBuilder_text_prompt(
                          ImageToImageBuilder_init_image_path(
                              ImageToImageBuilder_new, "init_image.png").val,
                          "a castle", 1).val,
                      "Anime").val).val],
     [kind |-> "MaskerBuilder",
      req |-> MaskerBuilder_build(
                  MaskerBuilder_mask_image(
                      MaskerBuilder_mask_source(
                          MaskerBuilder_style_preset(
                              MaskerBuilder_text_prompt(
                                  MaskerBuilder_init_image_path(
                                      MaskerBuilder_new, "init_image.png").val,
                                  "a castle", 1).val,
                              "Anime").val,
                          "MaskImageBlack").val,
                      "mask.png").val).val],
     [kind |-> "MaskerBuilder",
      req |-> MaskerBuilder_build(
                  MaskerBuilder_mask_source(
                      MaskerBuilder_style_preset(
                          MaskerBuilder_text_prompt(
                              MaskerBuilder_text_prompt(
                                  MaskerBuilder_init_image_path(
                                      MaskerBuilder_new, "init_image.png").val,
                                  "a castle", 1).val,
                              "a moat", 2).val,
                          "Anime").val,
                      "InitImageAlpha").val).val],
     [kind |-> "UpscalerBuilder",
      req |-> UpscalerBuilder_build(
                  UpscalerBuilder_height(
                      UpscalerBuilder_text_prompt(
                          UpscalerBuilder_image(UpscalerBuilder_new, "init_image.png").val,
                          "a castle", 1).val,
                      2048).val).val]}

ClientInit ==
    /\ \E s \in SampleRequests :
          /\ kind = s.kind
          /\ req = Some(s.req)
    /\ b = None
    /\ pc = "built"
    /\ res = [op |-> "build", arg |-> <<>>, err |-> None]
    /\ out = None
    /\ ncalls = 0
    /\ NoEncoder
    /\ env \in EnvVals
    /\ ClientIdle
    /\ SaveIdle
    /\ TasksIdle

\* a function or method returns r: what it leaves behind
Return(r) ==
    /\ cpc' = "done"
    /\ ret' = Some(r)

\* an API function is entered: nothing of an earlier call is left
Enter(op, arg, self, chain) ==
    /\ cpc \in {"idle", "done"}
    /\ call' = [op |-> op, arg |-> arg, self |-> self, chain |-> chain]
    /\ client' = None
    /\ payload' = None
    /\ resp' = None
    /\ sent' = None
    /\ ret' = None

\* the calls an API function chains on ClientBuilder::new()?, each followed
\* by `?`, before .build()?
Chain(method, path, headers) ==
    <<<<"method", method>>, <<"path", path>>>>
    \o [i \in DOMAIN headers |-> <<"header", headers[i][1], headers[i][2]>>]

\* get_engines(), get_user_account(), get_user_balance(), up to ClientBuilder::new()
Api_Get ==
    /\ \E op \in {"get_engines", "get_user_account", "get_user_balance"} :
          Enter(op, <<>>, None,
                Chain("GET", account_path(op),
                      << <<"Content-Type", "application/json">> >>))
    /\ trace' = <<>>
    /\ cpc' = "new"
    /\ UNCHANGED <<builderVars, enc, saveVars, taskVars, env>>

\* TextToImage::generate(self, engine) and generate_once(self, engine), up to
\* ClientBuilder::new()
TextToImage_Generate ==
    /\ kind = "TextToImageBuilder" /\ pc = "built"
    /\ \E engine \in Engines :
          \/ Enter("TextToImage::generate", <<engine>>, req,
                   Chain("POST", TextToImage_path(engine),
                         << <<"accept", "application/json">>,
                            <<"Content-Type", "application/json">> >>))
          \/ Enter("TextToImage::generate_once", <<engine>>, req,
                   Chain("POST", TextToImage_path(engine),
                         << <<"accept", "image/png">>,
                            <<"Content-Type", "application/json">> >>))
    /\ trace' = <<>>
    /\ cpc' = "new"
    /\ req' = None
    /\ pc' = "sent"
    /\ UNCHANGED <<kind, b, res, out, ncalls, enc, saveVars, taskVars, env>>

\* faulty variant: an encoding error is dropped and the call goes on with an
\* empty body
Encoded_ErrorDropped(r, boundary, body) ==
    /\ trace' = <<[ev |-> "to_multipart_form_data", ok |-> r.tag = "Ok"]>>
    /\ payload' = Some([type |-> "multipart",
                        boundary |-> IF r.tag = "Ok" THEN boundary ELSE "",
                        body |-> IF r.tag = "Ok" THEN body ELSE <<>>])
    /\ cpc' = "new"
    /\ ret' = None
    /\ resp' = None

\* the first statements of a generate() with a multipart body: the boundary
\* and to_multipart_form_data, whose value is r
Encoded(r, boundary, body) ==
    /\ trace' = <<[ev |-> "to_multipart_form_data", ok |-> r.tag = "Ok"]>>
    /\ IF r.tag = "Ok"
       THEN /\ payload' = Some([type |-> "multipart", boundary |-> boundary,
                                body |-> body])
            /\ cpc' = "new"
            /\ ret' = None
            /\ resp' = None
       ELSE /\ payload' = None
            /\ resp' = None
            /\ Return(r)

\* ImageToImage::generate(self, engine), up to ClientBuilder::new()
ImageToImage_Generate ==
    /\ cpc \in {"idle", "done"}
    /\ kind = "ImageToImageBuilder" /\ pc = "built"
    /\ \E engine \in Engines, rnd \in RandU64, fs \in SUBSET Paths :
          LET boundary == format_boundary(rnd)
              r == ImageToImage_to_multipart_form_data(unwrap(req), boundary, fs)
          IN  /\ Encoded(r, boundary, r.val)
              /\ call' = [op |-> "ImageToImage::generate", arg |-> <<engine>>,
                          self |-> req,
                          chain |-> Chain("POST", ImageToImage_path(engine),
                                       << <<"accept", "application/json">>,
                                          <<"Content-Type",
                                            multipart_content_type(boundary)>> >>)]
    /\ client' = None
    /\ sent' = None
    /\ req' = None
    /\ pc' = "sent"
    /\ UNCHANGED <<kind, b, res, out, ncalls, enc, saveVars, taskVars, env>>

\* Masker::generate(&self, engine), up to ClientBuilder::new()
Masker_Generate ==
    /\ cpc \in {"idle", "done"}
    /\ kind = "MaskerBuilder" /\ pc = "built"
    /\ \E engine \in Engines, rnd \in RandU64, fs \in SUBSET Paths :
          LET r == Masker_to_multipart_form_data(unwrap(req), rnd, fs)
          IN  /\ Encoded(r, r.val.boundary, r.val.body)
              /\ call' = [op |-> "Masker::generate", arg |-> <<engine>>,
                          self |-> req,
                          chain |-> IF r.tag = "Err" THEN <<>>
                                    ELSE Chain("POST", Masker_path(engine),
                                             << <<"accept", "application/json">>,
                                                <<"Content-Type",
                                                  multipart_content_type(
                                                      r.val.boundary)>> >>)]
    /\ client' = None
    /\ sent' = None
    /\ UNCHANGED <<builderVars, enc, saveVars, taskVars, env>>

\* Upscaler::generate(self, engine), up to ClientBuilder::new()
Upscaler_Generate ==
    /\ cpc \in {"idle", "done"}
    /\ kind = "UpscalerBuilder" /\ pc = "built"
    /\ \E engine \in UpscaleEngines, rnd \in RandU64, fs \in SUBSET Paths :
          LET boundary == format_boundary(rnd)
              r == Upscaler_to_multipart_form_data(unwrap(req), boundary, engine, fs)
          IN  /\ Encoded(r, boundary, r.val)
              /\ call' = [op |-> "Upscaler::generate", arg |-> <<engine>>,
                          self |-> req,
                          chain |-> Chain("POST", Upscaler_path(engine),
                                       << <<"accept", "application/json">>,
                                          <<"Content-Type",
                                            multipart_content_type(boundary)>> >>)]
    /\ client' = None
    /\ sent' = None
    /\ req' = None
    /\ pc' = "sent"
    /\ UNCHANGED <<kind, b, res, out, ncalls, enc, saveVars, taskVars, env>>

\* send_request(&self, body) is entered with a Client: build_request, which
\* cannot fail on the typed url, method and headers of a Client
EnterSendRequest(c, body, before) ==
    /\ client' = Some(c)
    /\ payload' = Some(body)
    /\ trace' = Append(before, [ev |-> "build_request", ok |-> TRUE])
    /\ cpc' = "connect"
    /\ resp' = None
    /\ sent' = None
    /\ ret' = None

\* one call of the ClientBuilder chain of an API function returned r
Chained(ev, r, rest) ==
    /\ trace' = Append(trace, [ev |-> ev, ok |-> r.tag = "Ok"])
    /\ IF r.tag = "Ok"
       THEN /\ client' = Some(r.val)
            /\ cpc' = "chain"
            /\ call' = [call EXCEPT !.chain = rest]
            /\ UNCHANGED <<resp, ret>>
       ELSE /\ client' = None
            /\ Return(r)
            /\ UNCHANGED <<call, resp>>
    /\ UNCHANGED <<builderVars, enc, saveVars, taskVars, env, payload, sent>>

\* let cb = ClientBuilder::new()?
Api_New ==
    /\ cpc = "new"
    /\ Chained("ClientBuilder::new", ClientBuilder_new(env), call.chain)

\* the next of .method(..)?, .path(..)?, .header(..)?
Api_Chain ==
    /\ cpc = "chain"
    /\ call.chain # <<>>
    /\ LET c == Head(call.chain)
           cb == unwrap(client)
       IN  Chained(c[1],
                   CASE c[1] = "method" -> ClientBuilder_method(cb, c[2])
                     [] c[1] = "path" -> ClientBuilder_path(cb, c[2])
                     [] c[1] = "header" -> ClientBuilder_header(cb, c[2], c[3]),
                   Tail(call.chain))

\* .build()? and the call of send_request with the body: nothing, the JSON
\* text of the request, or the multipart body encoded before
Api_Build ==
    /\ cpc = "chain"
    /\ call.chain = <<>>
    /\ LET r == ClientBuilder_build(unwrap(client)) IN
       IF r.tag = "Ok"
       THEN EnterSendRequest(r.val,
                CASE call.op \in {"TextToImage::generate", "TextToImage::generate_once"}
                        -> [type |-> "json",
                            json |-> TextToImage_to_json(unwrap(call.self))]
                  [] call.op \in {"get_engines", "get_user_account", "get_user_balance"}
                        -> [type |-> "empty"]
                  [] OTHER -> unwrap(payload),
                Append(trace, [ev |-> "build", ok |-> TRUE]))
       ELSE /\ trace' = Append(trace, [ev |-> "build", ok |-> FALSE])
            /\ client' = None
            /\ Return(r)
            /\ UNCHANGED <<payload, sent, resp>>
    /\ UNCHANGED <<builderVars, enc, saveVars, taskVars, env, call>>

\* a ClientBuilder made by hand: ClientBuilder::new()
ClientBuilder_New ==
    /\ cpc \in {"idle", "done"}
    /\ call' = [op |-> "ClientBuilder", arg |-> <<>>]
    /\ LET r == ClientBuilder_new(env) IN
       /\ trace' = <<[ev |-> "ClientBuilder::new", ok |-> r.tag = "Ok"]>>
       /\ IF r.tag = "Ok"
          THEN client' = Some(r.val) /\ cpc' = "builder" /\ ret' = None
          ELSE client' = None /\ Return(r)
    /\ resp' = None
    /\ payload' = None
    /\ sent' = None
    /\ UNCHANGED <<builderVars, enc, saveVars, taskVars, env>>

\* a call `cb.ev(..)` on the hand-made builder whose value is r
ClientBuilder_Call(ev, r) ==
    /\ cpc = "builder"
    /\ trace' = Append(trace, [ev |-> ev, ok |-> r.tag = "Ok"])
    /\ IF r.tag = "Ok"
       THEN /\ client' = Some(r.val)
            /\ cpc' = (IF ev = "build" THEN "client" ELSE "builder")
            /\ UNCHANGED <<ret, resp>>
       ELSE client' = None /\ Return(r) /\ UNCHANGED resp
    /\ UNCHANGED <<builderVars, enc, saveVars, taskVars, env, call, payload, sent>>

ClientBuilder_Setters ==
    /\ Len(trace) <= MaxClientCalls
    /\ \/ \E p \in PathArgs :
             ClientBuilder_Call("path", ClientBuilder_path(unwrap(client), p))
       \/ \E m \in MethodArgs :
             ClientBuilder_Call("method", ClientBuilder_method(unwrap(client), m))
       \/ \E h \in HeaderArgs :
             ClientBuilder_Call("header", ClientBuilder_header(unwrap(client), h[1], h[2]))

ClientBuilder_Build ==
    /\ cpc = "builder"
    /\ ClientBuilder_Call("build", ClientBuilder_build(unwrap(client)))

\* Client::send_request(&self, body) called on a hand-made Client, which
\* stays with the caller and can be used again
Client_SendRequest ==
    /\ cpc = "client" \/ (cpc = "done" /\ call.op = "Client::send_request")
    /\ call' = [op |-> "Client::send_request", arg |-> <<>>]
    /\ EnterSendRequest(unwrap(client), [type |-> "empty"], <<>>)
    /\ UNCHANGED <<builderVars, enc, saveVars, taskVars, env>>

\* send_request returns r to its caller: the hand-made Client is kept; an API
\* function drops its Client and returns the error, or the decoded body
Returned(r) ==
    /\ sent' = Some(r)
    /\ IF call.op = "Client::send_request"
       THEN Return(r) /\ UNCHANGED client
       ELSE /\ Return(IF r.tag = "Err" THEN r ELSE deserialize(call.op, r.val))
            /\ client' = None
    /\ UNCHANGED <<builderVars, enc, saveVars, taskVars, env, call, payload, resp>>

\* one awaited step of send_request that succeeds or fails with its error
Client_Step(at, ev, next) ==
    /\ cpc = at
    /\ \E ok \in BOOLEAN :
          /\ trace' = Append(trace, [ev |-> ev, ok |-> ok])
          /\ IF ok
             THEN /\ cpc' = next
                  /\ UNCHANGED <<builderVars, enc, saveVars, taskVars, env, call, client, payload,
                                 resp, sent, ret>>
             ELSE Returned(Err(ForeignError("transport", ev)))

\* faulty variant: a failed connect is tried a second time
Client_Connect_Retry ==
    /\ cpc = "connect"
    /\ \E ok \in BOOLEAN :
          /\ trace' = Append(trace, [ev |-> "connect", ok |-> ok])
          /\ IF ok \/ \A i \in DOMAIN trace : trace[i].ev # "connect"
             THEN /\ cpc' = (IF ok THEN "tls" ELSE "connect")
                  /\ UNCHANGED <<builderVars, enc, saveVars, taskVars, env, call, client, payload,
                                 resp, sent, ret>>
             ELSE Returned(Err(ForeignError("transport", "connect")))

\* TcpStream::connect(self.format_address()).await?
Client_Connect == Client_Step("connect", "connect", "tls")

\* async_native_tls::connect(host, stream).await?
Client_Tls == Client_Step("tls", "tls", "handshake")

\* handshake(io).await?, and the connection task spawned after it
Client_Handshake == Client_Step("handshake", "handshake", "request")

\* sender.send_request(req).await?: the response head arrives, or the error
Client_Request ==
    /\ cpc = "request"
    /\ \/ \E status \in Statuses :
             /\ trace' = Append(trace, [ev |-> "request", ok |-> TRUE])
             /\ resp' = Some([status |-> status, bytes |-> "", frames |-> <<>>])
             /\ cpc' = "frames"
             /\ UNCHANGED <<builderVars, enc, saveVars, taskVars, env, call, client, payload, sent, ret>>
       \/ /\ trace' = Append(trace, [ev |-> "request", ok |-> FALSE])
          /\ Returned(Err(ForeignError("transport", "request")))

\* one turn of `while let Some(resulting_frame) = res.frame().await`: a data
\* frame is appended to the buffer, a trailers frame adds nothing, an error
\* frame ends the call
Client_Frame ==
    /\ cpc = "frames"
    /\ Len(unwrap(resp).frames) < MaxFrames
    /\ \/ \E chunk \in Chunks :
             /\ resp' = Some([unwrap(resp) EXCEPT !.bytes = @ \o chunk,
                                                  !.frames = Append(@, Some(chunk))])
             /\ trace' = Append(trace, [ev |-> "frame", ok |-> TRUE])
             /\ UNCHANGED <<builderVars, enc, saveVars, taskVars, env, call, cpc, client, payload,
                            sent, ret>>
       \/ /\ resp' = Some([unwrap(resp) EXCEPT !.frames = Append(@, None)])
          /\ trace' = Append(trace, [ev |-> "frame", ok |-> TRUE])
          /\ UNCHANGED <<builderVars, enc, saveVars, taskVars, env, call, cpc, client, payload,
                         sent, ret>>
       \/ /\ trace' = Append(trace, [ev |-> "frame", ok |-> FALSE])
          /\ Returned(Err(ForeignError("transport", "frame")))

\* res.frame() yields None: the body is complete and send_request returns
Client_BodyEnd ==
    /\ cpc = "frames"
    /\ trace' = Append(trace, [ev |-> "body end", ok |-> TRUE])
    /\ Returned(send_request_result(unwrap(resp).status, unwrap(resp).bytes))

ClientNext ==
    \/ Api_Get
    \/ TextToImage_Generate
    \/ ImageToImage_Generate
    \/ Masker_Generate
    \/ Upscaler_Generate
    \/ Api_New
    \/ Api_Chain
    \/ Api_Build
    \/ ClientBuilder_New
    \/ ClientBuilder_Setters
    \/ ClientBuilder_Build
    \/ Client_SendRequest
    \/ Client_Connect
    \/ Client_Tls
    \/ Client_Handshake
    \/ Client_Request
    \/ Client_Frame
    \/ Client_BodyEnd

ClientSpec == ClientInit /\ [][ClientNext]_vars

-----------------------------------------------------------------------------
(* The multipart accumulator used on its own: new(), add_text() any number   *)
(* of times, then end_body() once.                                           *)

\* most text parts added to one body
MaxParts == 3

PartNameArgs == {"seed", "steps"}
PartValueArgs == {"0", "7"}

EncoderInit ==
    /\ Start("MaskerBuilder")
    /\ \E rnd \in RandU64 :
          enc = Some([data |-> MultipartFormData_new(rnd), added |-> 0, ended |-> FALSE])
    /\ env = Some("sk-test")
    /\ ClientIdle
    /\ SaveIdle
    /\ TasksIdle

Encoder_add_text ==
    /\ ~unwrap(enc).ended
    /\ unwrap(enc).added < MaxParts
    /\ \E name \in PartNameArgs, value \in PartValueArgs :
          enc' = Some([unwrap(enc) EXCEPT
                          !.data = add_text(@, name, value).val,
                          !.added = @ + 1])
    /\ UNCHANGED <<builderVars, clientVars, saveVars, taskVars>>

Encoder_end_body ==
    /\ ~unwrap(enc).ended
    /\ enc' = Some([unwrap(enc) EXCEPT !.data = end_body(@).val, !.ended = TRUE])
    /\ UNCHANGED <<builderVars, clientVars, saveVars, taskVars>>

EncoderNext ==
    \/ Encoder_add_text
    \/ Encoder_end_body

EncoderSpec == EncoderInit /\ [][EncoderNext]_vars

-----------------------------------------------------------------------------
(* Properties *)

\* the step is a call of build() on the live builder
BuildStep == pc = "accumulating" /\ res'.op = "build"

\* the first prompt of a builder is present and its text is non-empty
FirstPromptNonEmpty(self) ==
    self.text_prompts # <<>> /\ self.text_prompts[1].text # ""

\* C1: TextToImageBuilder.height(v) and .width(v) with v not divisible by 64
\* return the error whose message is "<height|width> must be a multiple of
\* 64, but was v", and the builder is gone, whatever was set before.
C1_NotMultipleOf64Rejected ==
    (/\ kind = "TextToImageBuilder"
     /\ res.op \in {"height", "width"}
     /\ res.arg[1] % 64 # 0)
    => /\ pc = "failed"
       /\ b = None
       /\ is_some(res.err)
       /\ ImageBuilderError_to_string(unwrap(res.err)) =
            IF res.op = "height"
            THEN <<"height must be a multiple of 64, but was ", res.arg[1]>>
            ELSE <<"width must be a multiple of 64, but was ", res.arg[1]>>

C1_Witness ==
    /\ kind = "TextToImageBuilder"
    /\ res.op = "width"
    /\ res.arg = <<100>>
    /\ res.err = Some(WidthNotMultipleOf64(100))

\* C2 as stated: every v below 128 is rejected with the message
\* "<height|width> must not be less than 128, but was v".
C2_Original ==
    (/\ kind = "TextToImageBuilder"
     /\ res.op \in {"height", "width"}
     /\ res.arg[1] < 128)
    => /\ is_some(res.err)
       /\ ImageBuilderError_to_string(unwrap(res.err)) =
            IF res.op = "height"
            THEN <<"height must not be less than 128, but was ", res.arg[1]>>
            ELSE <<"width must not be less than 128, but was ", res.arg[1]>>

\* C2 amended: every v below 128 is rejected by TextToImageBuilder.height(v)
\* and .width(v) -- with the "must not be less than 128, but was v" error
\* when v is a multiple of 64, and with the "must be a multiple of 64, but
\* was v" error when it is not.
C2_Below128Rejected ==
    (/\ kind = "TextToImageBuilder"
     /\ res.op \in {"height", "width"}
     /\ res.arg[1] < 128)
    => /\ pc = "failed"
       /\ is_some(res.err)
       /\ ImageBuilderError_to_string(unwrap(res.err)) =
            IF res.arg[1] % 64 = 0
            THEN IF res.op = "height"
                 THEN <<"height must not be less than 128, but was ", res.arg[1]>>
                 ELSE <<"width must not be less than 128, but was ", res.arg[1]>>
            ELSE IF res.op = "height"
                 THEN <<"height must be a multiple of 64, but was ", res.arg[1]>>
                 ELSE <<"width must be a multiple of 64, but was ", res.arg[1]>>

C2_Witness ==
    /\ kind = "TextToImageBuilder"
    /\ res.op = "width"
    /\ res.arg = <<64>>
    /\ res.err = Some(WidthLessThan128(64))

\* C3: in every builder that has the setter, cfg_scale(v) is rejected exactly
\* when v > 35 and samples(v) exactly when v > 10; the error carries v, and
\* an accepted v is the value stored in the builder.
C3_CfgScaleSamplesLimits ==
    /\ res.op = "cfg_scale" =>
          IF res.arg[1] > 35
          THEN /\ pc = "failed"
               /\ res.err = Some(CfgScaleGreaterThan35(res.arg[1]))
               /\ ImageBuilderError_to_string(unwrap(res.err)) =
                    <<"cfg_scale must be no greater than 35, but was ", res.arg[1]>>
          ELSE /\ pc = "accumulating"
               /\ res.err = None
               /\ b.cfg_scale = Some(res.arg[1])
    /\ res.op = "samples" =>
          IF res.arg[1] > 10
          THEN /\ pc = "failed"
               /\ res.err = Some(SamplesGreaterThan10(res.arg[1]))
               /\ ImageBuilderError_to_string(unwrap(res.err)) =
                    <<"samples must be no greater than 10, but was ", res.arg[1]>>
          ELSE /\ pc = "accumulating"
               /\ res.err = None
               /\ b.samples = Some(res.arg[1])

C3_Witness ==
    /\ kind = "UpscalerBuilder"
    /\ res.op = "cfg_scale"
    /\ res.arg = <<35>>
    /\ pc = "accumulating"
    /\ b.cfg_scale = Some(35)
    /\ is_some(b.image)

\* C4: steps(v) is rejected for v > 150 by every builder; TextToImageBuilder,
\* MaskerBuilder and UpscalerBuilder also reject v < 10, so they accept
\* exactly 10..150, and ImageToImageBuilder accepts exactly 0..150.
C4_StepsLimits ==
    res.op = "steps" =>
       LET v == res.arg[1]
           accepted == IF kind = "ImageToImageBuilder"
                       THEN v <= 150
                       ELSE 10 <= v /\ v <= 150
       IN  /\ accepted <=> res.err = None
           /\ accepted => pc = "accumulating" /\ b.steps = Some(v)
           /\ v > 150 => res.err = Some(StepsGreaterThan150(v))
           /\ (v < 10 /\ kind # "ImageToImageBuilder")
                 => res.err = Some(StepsLessThan10(v))

C4_Witness ==
    /\ kind = "ImageToImageBuilder"
    /\ res.op = "steps"
    /\ res.arg = <<9>>
    /\ pc = "accumulating"
    /\ b.steps = Some(9)

\* C5 as stated: for TextToImageBuilder, ImageToImageBuilder and
\* MaskerBuilder, build() on a builder without a style preset fails with
\* "a style preset must be set", whatever else was set.
C5_Original ==
    [][(/\ BuildStep
        /\ kind \in {"TextToImageBuilder", "ImageToImageBuilder", "MaskerBuilder"}
        /\ is_none(b.style_preset))
       => /\ is_some(res'.err)
          /\ ImageBuilderError_to_string(unwrap(res'.err)) =
               <<"a style preset must be set">>]_vars

\* C5 amended: build() on a builder without a style preset always fails; the
\* error is "a style preset must be set" for TextToImageBuilder, and for
\* ImageToImageBuilder and MaskerBuilder when the init image path was set;
\* when it was not, their error is "init image path must be set".
C5_NoStylePresetFails ==
    [][(/\ BuildStep
        /\ kind \in {"TextToImageBuilder", "ImageToImageBuilder", "MaskerBuilder"}
        /\ is_none(b.style_preset))
       => /\ pc' = "failed"
          /\ req' = None
          /\ is_some(res'.err)
          /\ ImageBuilderError_to_string(unwrap(res'.err)) =
               IF kind = "TextToImageBuilder" \/ is_some(b.init_image)
               THEN <<"a style preset must be set">>
               ELSE <<"init image path must be set">>]_vars

C5_Witness ==
    /\ kind = "MaskerBuilder"
    /\ res.op = "build"
    /\ res.err = Some(StylePresetNotSet)
    /\ pc = "failed"

\* C6: with a style preset set, TextToImageBuilder.build() fails with "a text
\* prompt must not be empty" exactly when there is no prompt or the first
\* prompt's text is empty; otherwise it succeeds with the prompts as given,
\* also when a later prompt has an empty text.
C6_FirstPromptOnly ==
    [][(/\ BuildStep
        /\ kind = "TextToImageBuilder"
        /\ is_some(b.style_preset))
       => IF FirstPromptNonEmpty(b)
          THEN /\ res'.err = None
               /\ pc' = "built"
               /\ unwrap(req').text_prompts = b.text_prompts
          ELSE /\ pc' = "failed"
               /\ is_some(res'.err)
               /\ ImageBuilderError_to_string(unwrap(res'.err)) =
                    <<"a text prompt must not be empty">>]_vars

C6_Witness ==
    /\ kind = "TextToImageBuilder"
    /\ pc = "built"
    /\ res.op = "build"
    /\ Len(unwrap(req).text_prompts) = 2
    /\ unwrap(req).text_prompts[1].text = "a castle"
    /\ unwrap(req).text_prompts[2].text = ""

\* C7 as stated: UpscalerBuilder.build() with both height and width set fails
\* with "only one of width or height may be specified", whatever else was set.
C7_Original ==
    [][(/\ BuildStep
        /\ kind = "UpscalerBuilder"
        /\ is_some(b.height)
        /\ is_some(b.width))
       => /\ is_some(res'.err)
          /\ ImageBuilderError_to_string(unwrap(res'.err)) =
               <<"only one of width or height may be specified">>]_vars

\* C7 amended: UpscalerBuilder.build() with both height and width set always
\* fails: with "only one of width or height may be specified" when the image
\* path was set, and with "upscale image path must be set" when it was not.
C7_HeightWidthConflict ==
    [][(/\ BuildStep
        /\ kind = "UpscalerBuilder"
        /\ is_some(b.height)
        /\ is_some(b.width))
       => /\ pc' = "failed"
          /\ req' = None
          /\ is_some(res'.err)
          /\ ImageBuilderError_to_string(unwrap(res'.err)) =
               IF is_some(b.image)
               THEN <<"only one of width or height may be specified">>
               ELSE <<"upscale image path must be set">>]_vars

C7_Witness ==
    /\ kind = "UpscalerBuilder"
    /\ res.op = "build"
    /\ res.err = Some(UpscaleWidthHeightConflict)
    /\ pc = "failed"

\* C8: build() fails whenever the source image path was never set, with
\* "init image path must be set" for ImageToImageBuilder and MaskerBuilder and
\* "upscale image path must be set" for UpscalerBuilder, whatever else was set.
C8_ImagePathMandatory ==
    [][/\ (/\ BuildStep
           /\ kind \in {"ImageToImageBuilder", "MaskerBuilder"}
           /\ is_none(b.init_image))
          => /\ pc' = "failed"
             /\ is_some(res'.err)
             /\ ImageBuilderError_to_string(unwrap(res'.err)) =
                  <<"init image path must be set">>
       /\ (/\ BuildStep
           /\ kind = "UpscalerBuilder"
           /\ is_none(b.image))
          => /\ pc' = "failed"
             /\ is_some(res'.err)
             /\ ImageBuilderError_to_string(unwrap(res'.err)) =
                  <<"upscale image path must be set">>]_vars

C8_Witness ==
    /\ kind = "ImageToImageBuilder"
    /\ res.op = "build"
    /\ res.err = Some(InitImagePathNotSet)
    /\ pc = "failed"

\* C9: MaskerBuilder.build() fails whenever the mask source is MaskImageBlack
\* or MaskImageWhite and no mask image path was given; with InitImageAlpha it
\* succeeds exactly when init image, style preset and a non-empty first
\* prompt are set, mask image or not, and the multipart body of such a
\* request has no mask_image part.
C9_MaskImageRequirement ==
    [][/\ (/\ BuildStep
           /\ kind = "MaskerBuilder"
           /\ b.mask_source \in {Some("MaskImageBlack"), Some("MaskImageWhite")}
           /\ is_none(b.mask_image))
          => pc' = "failed" /\ is_some(res'.err) /\ req' = None
       /\ (/\ BuildStep
           /\ kind = "MaskerBuilder"
           /\ b.mask_source = Some("InitImageAlpha"))
          => (pc' = "built" /\ res'.err = None)
               <=> (/\ is_some(b.init_image)
                    /\ is_some(b.style_preset)
                    /\ FirstPromptNonEmpty(b))
       /\ (/\ kind' = "MaskerBuilder"
           /\ pc' = "encoded"
           /\ unwrap(req').mask_source = "InitImageAlpha")
          => /\ HasFilePart(unwrap(out').body, "init_image")
             /\ ~HasFilePart(unwrap(out').body, "mask_image")]_vars

C9_Witness ==
    /\ kind = "MaskerBuilder"
    /\ pc = "encoded"
    /\ unwrap(req).mask_source = "InitImageAlpha"
    /\ unwrap(req).mask_image = "mask.png"
    /\ ~HasFilePart(unwrap(out).body, "mask_image")

\* C10: the JSON body of a TextToImage request built without calling
\* sampler() or clip_guidance_preset() has neither a `sampler` key nor a
\* `clip_guidance_preset` key.
C10_NoneSentinelsOmitted ==
    [][(/\ BuildStep
        /\ kind = "TextToImageBuilder"
        /\ is_none(b.sampler)
        /\ is_none(b.clip_guidance_preset)
        /\ pc' = "built")
       => LET json == TextToImage_to_json(unwrap(req'))
          IN  /\ "sampler" \notin JsonKeys(json)
              /\ "clip_guidance_preset" \notin JsonKeys(json)]_vars

\* the u32 fields of TextToImage that build() fills with a default
DefaultedFields == {"height", "width", "cfg_scale", "samples", "seed", "steps"}

\* the step is an accepted call of the setter of a defaulted field
DefaultedSetterStep ==
    /\ pc = "accumulating" /\ pc' = "accumulating"
    /\ res'.op \in DefaultedFields

\* C11: a successfully built TextToImage request serializes height, width,
\* cfg_scale, samples, seed and steps each exactly once, with the value the
\* caller set last (every accepted setter call stores its argument) or, when
\* the caller set none, the default 1024, 1024, 7, 1, 0 and 50.
C11_JsonCarriesValuesOrDefaults ==
    [][/\ (kind = "TextToImageBuilder" /\ DefaultedSetterStep)
          => b'[res'.op] = Some(res'.arg[1])
       /\ (kind = "TextToImageBuilder" /\ BuildStep /\ pc' = "built")
          => LET json == TextToImage_to_json(unwrap(req'))
                 set(f, d) == /\ JsonCount(json, f) = 1
                              /\ JsonValues(json, f) = {unwrap_or(b[f], d)}
             IN  /\ set("height", 1024)
                 /\ set("width", 1024)
                 /\ set("cfg_scale", 7)
                 /\ set("samples", 1)
                 /\ set("seed", 0)
                 /\ set("steps", 50)]_vars

\* a request built with height set and steps unset was serialized
C11_Witness ==
    /\ kind = "TextToImageBuilder" /\ pc = "encoded"
    /\ JsonValues(unwrap(out), "height") = {128}
    /\ JsonValues(unwrap(out), "steps") = {50}
    /\ JsonValues(unwrap(out), "seed") = {0}

\* the names of the parts in a body, in order (the closing marker has none)
PartNames(body) ==
    [i \in 1..Len(SelectSeq(body, LAMBDA p : p.part # "end")) |->
        SelectSeq(body, LAMBDA p : p.part # "end")[i].name]

\* the names of the parts that only the latent upscaler accepts, for n prompts
GenerationFieldNames(n) ==
    {"cfg_scale", "steps", "seed"}
    \cup {prompt_part_name(i, f) : i \in 0..(n - 1), f \in {"text", "weight"}}

\* C17: an Upscaler body holds text_prompts, cfg_scale, steps or seed parts
\* only when the engine is StableDiffusionX4LatentUpscaler; a body encoded
\* for EsrganV1X2Plus holds none of them, whatever the builder was given.
C17_UpscalerEngineFields ==
    (kind = "UpscalerBuilder" /\ pc = "encoded")
    => LET names == PartNames(unwrap(out))
           n == Len(unwrap(req).text_prompts)
       IN  (\E i \in DOMAIN names : names[i] \in GenerationFieldNames(n))
           => res.arg[2] = "StableDiffusionX4LatentUpscaler"

\* a request with a prompt and a cfg_scale was encoded for EsrganV1X2Plus
C17_Witness ==
    /\ kind = "UpscalerBuilder" /\ pc = "encoded"
    /\ res.arg[2] = "EsrganV1X2Plus"
    /\ unwrap(req).text_prompts # <<>>
    /\ unwrap(req).cfg_scale = 35
    /\ \A i \in DOMAIN PartNames(unwrap(out)) :
          PartNames(unwrap(out))[i] \in {"image", "height", "width"}

\* the name and value of each part a prompt list is encoded to, in order:
\* text 0, weight 0, text 1, weight 1, ...
ExpectedPromptParts(text_prompts) ==
    [j \in 1..(2 * Len(text_prompts)) |->
        IF j % 2 = 1
        THEN <<prompt_part_name((j - 1) \div 2, "text"), text_prompts[(j + 1) \div 2].text>>
        ELSE <<prompt_part_name((j - 2) \div 2, "weight"), text_prompts[j \div 2].weight>>]

\* the text parts of a body that carry a prompt field, in body order
PromptParts(body, n) ==
    LET ps == SelectSeq(body, LAMBDA p : /\ p.part = "text"
                                         /\ p.name \in GenerationFieldNames(n)
                                         /\ p.name \notin {"cfg_scale", "steps", "seed"})
    IN  [j \in 1..Len(ps) |-> <<ps[j].name, ps[j].value>>]

\* the positions of a body where a prompt field is encoded are consecutive
PromptPartsAdjacent(body, n) ==
    \A i, j \in DOMAIN body :
       (/\ i < j
        /\ body[i].part = "text" /\ body[i].name = prompt_part_name(0, "text")
        /\ body[j].part = "text" /\ body[j].name = prompt_part_name(n - 1, "weight"))
       => j - i + 1 = 2 * n

\* every file part comes after every text part, and the closing marker is the
\* last element and the only closing marker
FilesAfterTextsThenEnd(body) ==
    /\ \A i, j \in DOMAIN body :
          (body[i].part = "file" /\ body[j].part = "text") => j < i
    /\ body # <<>> /\ body[Len(body)].part = "end"
    /\ \A i \in DOMAIN body : body[i].part = "end" => i = Len(body)

\* a part without its boundary line
Unframed(p) == [f \in DOMAIN p \ {"boundary"} |-> p[f]]

\* the step is an encoding of the built request that wrote prompt parts
EncodesPrompts ==
    /\ pc = "built" /\ pc' = "encoded"
    /\ \/ kind \in {"ImageToImageBuilder", "MaskerBuilder"}
       \/ kind = "UpscalerBuilder" /\ res'.arg[2] = "StableDiffusionX4LatentUpscaler"

\* the encoded body of a step that produced a multipart body
EncodedBody == IF kind = "MaskerBuilder" THEN unwrap(out').body ELSE unwrap(out')

\* C20: text_prompt() appends to the prompt list and build() keeps the list;
\* every multipart body encodes the prompts in that order, indexed from 0,
\* each text part immediately followed by its weight part; file parts come
\* after all text parts and the closing marker is last; and the parts do not
\* depend on the random boundary (a second encoding of the same Masker
\* request yields the same parts in the same order).
C20_PartOrder ==
    [][/\ (pc = "accumulating" /\ pc' = "accumulating" /\ res'.op = "text_prompt")
          => b'.text_prompts
                = Append(b.text_prompts, TextPrompt(res'.arg[1], res'.arg[2]))
       /\ (BuildStep /\ pc' = "built")
          => unwrap(req').text_prompts = b.text_prompts
       /\ (pc = "built" /\ pc' = "encoded" /\ kind # "TextToImageBuilder")
          => FilesAfterTextsThenEnd(EncodedBody)
       /\ EncodesPrompts
          => LET n == Len(unwrap(req).text_prompts) IN
             /\ PromptParts(EncodedBody, n) = ExpectedPromptParts(unwrap(req).text_prompts)
             /\ PromptPartsAdjacent(EncodedBody, n)
       /\ (pc = "built" /\ pc' = "encoded" /\ kind = "MaskerBuilder")
          => \A rnd \in RandU64 :
                LET again == Masker_to_multipart_form_data(unwrap(req'), rnd, Paths).val.body
                IN  /\ Len(again) = Len(EncodedBody)
                    /\ \A i \in DOMAIN again : Unframed(again[i]) = Unframed(EncodedBody[i])]_vars

\* an ImageToImage request with two prompts was encoded
C20_Witness ==
    /\ kind = "ImageToImageBuilder" /\ pc = "encoded"
    /\ Len(unwrap(req).text_prompts) = 2
    /\ unwrap(req).text_prompts[1] # unwrap(req).text_prompts[2]

\* C18: N add_text calls followed by one end_body() leave a body of exactly
\* N + 1 boundary-delimited segments, the closing marker being the last, and
\* the first and the last segment carry the same boundary token.
C18_SegmentsOfTextParts ==
    (is_some(enc) /\ unwrap(enc).ended)
    => LET body == unwrap(enc).data.body
           N == unwrap(enc).added
       IN  /\ Len(body) = N + 1
           /\ \A i \in 1..N : body[i].part = "text"
           /\ body[N + 1].part = "end"
           /\ body[1].boundary = body[Len(body)].boundary
           /\ body[1].boundary = unwrap(enc).data.boundary

\* a body of two text parts was closed
C18_Witness ==
    /\ is_some(enc) /\ unwrap(enc).ended
    /\ unwrap(enc).added = 2
    /\ Len(unwrap(enc).data.body) = 3

-----------------------------------------------------------------------------
(* generation/mod.rs: Image::save.  The payload is decoded as the base64    *)
(* STANDARD engine does: the alphabet A-Z a-z 0-9 + /, four characters to   *)
(* three bytes, canonical '=' padding in the last group only.  The file is  *)
(* a tokio::fs::File: its writes run on a blocking thread, and a write      *)
(* returns once the bytes were handed over, before they are in the file;    *)
(* only flush() waits for the outstanding write and reports its error.      *)

B64Alphabet ==
    <<"A", "B", "C", "D", "E", "F", "G", "H", "I", "J", "K", "L", "M",
      "N", "O", "P", "Q", "R", "S", "T", "U", "V", "W", "X", "Y", "Z",
      "a", "b", "c", "d", "e", "f", "g", "h", "i", "j", "k", "l", "m",
      "n", "o", "p", "q", "r", "s", "t", "u", "v", "w", "x", "y", "z",
      "0", "1", "2", "3", "4", "5", "6", "7", "8", "9", "+", "/">>

IsB64(c) == \E i \in DOMAIN B64Alphabet : B64Alphabet[i] = c

\* the six bits a character of the alphabet stands for
Sextet(c) == (CHOOSE i \in DOMAIN B64Alphabet : B64Alphabet[i] = c) - 1

DecodeError == ForeignError("base64::DecodeError", "invalid base64")

\* one group of four characters; `last` is true for the final group, the
\* only one that may end in one or two '=' (the bits left over are zero)
decode_group(g, last) ==
    IF \A i \in 1..4 : IsB64(g[i])
    THEN Ok(<<Sextet(g[1]) * 4 + Sextet(g[2]) \div 16,
              (Sextet(g[2]) % 16) * 16 + Sextet(g[3]) \div 4,
              (Sextet(g[3]) % 4) * 64 + Sextet(g[4])>>)
    ELSE IF last /\ g[4] = "=" /\ IsB64(g[1]) /\ IsB64(g[2]) /\ IsB64(g[3])
         THEN IF Sextet(g[3]) % 4 = 0
              THEN Ok(<<Sextet(g[1]) * 4 + Sextet(g[2]) \div 16,
                        (Sextet(g[2]) % 16) * 16 + Sextet(g[3]) \div 4>>)
              ELSE Err(DecodeError)
    ELSE IF last /\ g[4] = "=" /\ g[3] = "=" /\ IsB64(g[1]) /\ IsB64(g[2])
         THEN IF Sextet(g[2]) % 16 = 0
              THEN Ok(<<Sextet(g[1]) * 4 + Sextet(g[2]) \div 16>>)
              ELSE Err(DecodeError)
    ELSE Err(DecodeError)

\* general_purpose::STANDARD.decode_vec(input, &mut buffer): Ok(bytes
\* appended to the buffer) or Err(DecodeError)
RECURSIVE decode_vec(_)
decode_vec(input) ==
    IF input = <<>> THEN Ok(<<>>)
    ELSE IF Len(input) < 4 THEN Err(DecodeError)
    ELSE LET head == decode_group(SubSeq(input, 1, 4), Len(input) = 4)
             rest == decode_vec(SubSeq(input, 5, Len(input)))
         IN  IF head.tag = "Err" THEN head
             ELSE IF rest.tag = "Err" THEN rest
             ELSE Ok(head.val \o rest.val)

\* Image.base64 values: "", "aGk=" (hi), "AAEC" (bytes 0 1 2), "AAECaA=="
\* (two groups), and four that do not decode: a missing '=', a character
\* outside the alphabet, left-over bits that are not zero, padding inside
Base64Payloads ==
    {<<>>,
     <<"a", "G", "k", "=">>,
     <<"A", "A", "E", "C">>,
     <<"A", "A", "E", "C", "a", "A", "=", "=">>,
     <<"a", "G", "k">>,
     <<"a", "$", "k", "=">>,
     <<"a", "G", "l", "=">>,
     <<"a", "A", "=", "=", "A", "A", "E", "C">>}

\* the path argument of save()
SavePath == "artifact.png"

\* the file at the path before the first save: none, or one with content
SaveInit ==
    /\ Start("TextToImageBuilder")
    /\ NoEncoder
    /\ env = Some("sk-test")
    /\ ClientIdle
    /\ img = <<>>
    /\ disk \in {None, Some(<<9, 9, 9>>)}
    /\ prior = disk
    /\ spc = "idle"
    /\ buf = <<>>
    /\ inflight = None
    /\ sret = None
    /\ TasksIdle

\* image.save(path) is called on an Image with that payload
Image_save ==
    /\ spc \in {"idle", "returned"}
    /\ inflight = None
    /\ \E base64 \in Base64Payloads : img' = base64
    /\ prior' = disk
    /\ spc' = "create"
    /\ buf' = <<>>
    /\ sret' = None
    /\ UNCHANGED <<builderVars, enc, clientVars, taskVars, disk, inflight>>

\* tokio::fs::File::create(path).await?: the file is created, or emptied
\* when it exists; an error (no such directory, no permission) is returned
Image_save_Create ==
    /\ spc = "create"
    /\ \E ok \in BOOLEAN :
          IF ok
          THEN disk' = Some(<<>>) /\ spc' = "decode" /\ UNCHANGED sret
          ELSE /\ sret' = Some(Err(IoError(SavePath)))
               /\ spc' = "returned"
               /\ UNCHANGED disk
    /\ UNCHANGED <<builderVars, enc, clientVars, taskVars, img, prior, buf, inflight>>

\* general_purpose::STANDARD.decode_vec(&self.base64, &mut buffer)?
Image_save_Decode ==
    /\ spc = "decode"
    /\ LET r == decode_vec(img) IN
       IF r.tag = "Ok"
       THEN buf' = r.val /\ spc' = "write" /\ UNCHANGED sret
       ELSE sret' = Some(r) /\ spc' = "returned" /\ UNCHANGED buf
    /\ UNCHANGED <<builderVars, enc, clientVars, taskVars, img, disk, prior, inflight>>

\* png_file.write_all(buffer.as_mut_slice()).await?; Ok(()): the buffer is
\* handed to a blocking write and save() returns; png_file is dropped
\* without flush()
Image_save_WriteAll ==
    /\ spc = "write"
    /\ inflight' = IF buf = <<>> THEN None ELSE Some(buf)
    /\ sret' = Some(Ok(<<>>))
    /\ spc' = "returned"
    /\ UNCHANGED <<builderVars, enc, clientVars, taskVars, img, disk, prior, buf>>

\* the blocking write runs: the bytes reach the file, or the write fails
\* (no space left, an I/O error) and nobody is told
BlockingWrite ==
    /\ is_some(inflight)
    /\ \E ok \in BOOLEAN :
          disk' = IF ok THEN Some(unwrap(disk) \o unwrap(inflight)) ELSE disk
    /\ inflight' = None
    /\ UNCHANGED <<builderVars, enc, clientVars, taskVars, img, prior, spc, buf, sret>>

SaveNext ==
    \/ Image_save
    \/ Image_save_Create
    \/ Image_save_Decode
    \/ Image_save_WriteAll
    \/ BlockingWrite

SaveSpec == SaveInit /\ [][SaveNext]_vars

-----------------------------------------------------------------------------
(* Claims about the client, under ClientSpec *)

\* the events of a given name in a trace
Events(t, ev) == {i \in DOMAIN t : t[i].ev = ev}

\* a step in which ClientBuilder::build is called, on a hand-made builder or
\* at the end of the chain of an API function
ClientBuildStep ==
    /\ cpc \in {"builder", "chain"}
    /\ Len(trace') > Len(trace)
    /\ trace'[Len(trace) + 1].ev = "build"

\* C12: ClientBuilder.build() fails with the build error 'url is not set'
\* exactly when path() was never called on the builder; when it succeeds the
\* Client has the URL given by path() and the method GET unless method() was
\* called, in which case it has that method.
C12_BuildNeedsPath ==
    [][ClientBuildStep =>
        LET cb == unwrap(client)
            failed == ~trace'[Len(trace) + 1].ok
        IN  /\ failed <=> Events(trace, "path") = {}
            /\ failed => /\ ret' = Some(Err(ClientBuildError("url is not set")))
                         /\ client' = None
            /\ ~failed =>
                  /\ is_some(client')
                  /\ unwrap(client').url = unwrap(cb.url)
                  /\ unwrap(client').method =
                        (IF Events(trace, "method") = {} THEN "GET"
                         ELSE unwrap(cb.method))
                  /\ Events(trace, "method") = {} <=> is_none(cb.method)]_vars

\* a hand-made builder on which only header() was called failed to build
C12_Witness ==
    /\ call.op = "ClientBuilder"
    /\ cpc = "done"
    /\ Events(trace, "path") = {}
    /\ Events(trace, "header") # {}
    /\ trace[Len(trace)] = [ev |-> "build", ok |-> FALSE]
    /\ ret = Some(Err(ClientBuildError("url is not set")))

\* a hand-made builder with a path and no method built a GET client
C12_WitnessGet ==
    /\ call.op = "ClientBuilder"
    /\ cpc = "client"
    /\ Events(trace, "method") = {}
    /\ unwrap(client).method = "GET"
    /\ unwrap(client).url = "https://api.stability.ai/v1/engines/list"

\* the data of the frames received, in the order they came
RECURSIVE FrameData(_)
FrameData(frames) ==
    IF frames = <<>> THEN ""
    ELSE unwrap_or(Head(frames), "") \o FrameData(Tail(frames))

\* send_request returned after the response head had arrived
SendRequestReturned == cpc = "done" /\ is_some(sent) /\ is_some(resp)

\* what the claim says send_request gives for a status and the frames read
StatusOutcome ==
    LET status == unwrap(resp).status
        bytes == FrameData(unwrap(resp).frames)
        value == serde_json_from_slice(bytes)
    IN  /\ status # 200 =>
              /\ unwrap(sent).tag = "Err"
              /\ value.tag = "Ok" =>
                    unwrap(sent) = Err(ClientSendRequestError(value.val))
              /\ value.tag = "Err" => unwrap(sent) = value
        /\ status = 200 => unwrap(sent) = Ok(bytes)

\* the claim as stated: whenever send_request returns with a response status,
\* a status other than 200 gives the typed API error holding the parsed body
\* (or the decode error), and status 200 gives the bytes of the data frames.
C13_Original == SendRequestReturned => StatusOutcome

\* the loop over the frames ran until the body ended
BodyRead == trace # <<>> /\ trace[Len(trace)].ev = "body end"

\* C13: send_request on a response whose frames were all read without error:
\* any status other than 200 gives an error, the typed API error holding the
\* body parsed as JSON when the body is valid JSON and the JSON decode error
\* otherwise; status 200 gives the raw bytes, the concatenation of the data
\* of the frames in arrival order.  A frame that fails to be read ends the
\* call with that error, whatever the status.
C13_StatusDecidesResult ==
    SendRequestReturned =>
        /\ BodyRead => StatusOutcome
        /\ ~BodyRead =>
              /\ trace[Len(trace)] = [ev |-> "frame", ok |-> FALSE]
              /\ unwrap(sent) = Err(ForeignError("transport", "frame"))

\* a 404 response whose two frames together are a JSON text gave the typed error
C13_Witness ==
    /\ SendRequestReturned
    /\ BodyRead
    /\ unwrap(resp).status = 404
    /\ unwrap(resp).frames = <<Some("{\"artifacts\":"), Some("[]}")>>
    /\ unwrap(sent) = Err(ClientSendRequestError([json |-> "{\"artifacts\":[]}"]))

\* the functions of the library that talk to the API
ApiOps ==
    {"get_engines", "get_user_account", "get_user_balance",
     "TextToImage::generate", "TextToImage::generate_once",
     "ImageToImage::generate", "Masker::generate", "Upscaler::generate"}

\* C14: when STABILITY_API_KEY is absent from the environment,
\* ClientBuilder::new() fails, so that every API operation returns an error
\* and never opens a network connection.
C14_NoApiKeyNoConnection ==
    is_none(env) =>
        /\ \A i \in Events(trace, "ClientBuilder::new") : ~trace[i].ok
        /\ Events(trace, "connect") = {}
        /\ cpc \in {"idle", "new", "done"}
        /\ is_none(client)
        /\ (cpc = "done" /\ Events(trace, "ClientBuilder::new") # {}) =>
              ret = Some(Err(ForeignError("VarError", "NotPresent")))
        /\ (cpc = "done" /\ call.op \in ApiOps) =>
              /\ unwrap(ret).tag = "Err"
              /\ is_none(sent)

\* without the key, Masker::generate encoded its body and then failed in
\* ClientBuilder::new()
C14_Witness ==
    /\ is_none(env)
    /\ call.op = "Masker::generate"
    /\ cpc = "done"
    /\ trace = <<[ev |-> "to_multipart_form_data", ok |-> TRUE],
                 [ev |-> "ClientBuilder::new", ok |-> FALSE]>>
    /\ ret = Some(Err(ForeignError("VarError", "NotPresent")))

\* the awaited network steps of send_request, in the order of the code
NetOrder == <<"connect", "tls", "handshake", "request">>

NetEvents(t) == {i \in DOMAIN t : \E k \in DOMAIN NetOrder : t[i].ev = NetOrder[k]}

\* C15: one send_request makes at most one TCP connect, one TLS connect, one
\* HTTP/1 handshake and one request, in that order; when any of them, or the
\* reading of a body frame, fails, the call ends at once with that error: no
\* retry, no fallback, no later step.
C15_OneAttemptInOrder ==
    /\ \A i \in NetEvents(trace) :
          LET k == Cardinality({j \in NetEvents(trace) : j <= i})
          IN  k <= Len(NetOrder) /\ trace[i].ev = NetOrder[k]
    /\ \A i \in DOMAIN trace :
          /\ trace[i].ev \in {"frame", "body end"} =>
                \E j \in 1..(i - 1) : trace[j] = [ev |-> "request", ok |-> TRUE]
          /\ ~trace[i].ok =>
                /\ i = Len(trace)
                /\ cpc = "done"
                /\ unwrap(ret).tag = "Err"
                /\ (i \in NetEvents(trace) \/ trace[i].ev = "frame") =>
                      /\ sent = Some(Err(ForeignError("transport", trace[i].ev)))
                      /\ ret = sent

\* the TLS connect of get_engines failed after the TCP connect: the call
\* ended there with the error
C15_Witness ==
    /\ call.op = "get_engines"
    /\ cpc = "done"
    /\ Len(trace) >= 2
    /\ trace[Len(trace) - 1] = [ev |-> "connect", ok |-> TRUE]
    /\ trace[Len(trace)] = [ev |-> "tls", ok |-> FALSE]
    /\ ret = Some(Err(ForeignError("transport", "tls")))

\* the generate operations that take the engine identifier as a string
GenerateRoutes ==
    [op \in {"TextToImage::generate", "TextToImage::generate_once",
             "ImageToImage::generate", "Masker::generate"} |->
        CASE op = "ImageToImage::generate" -> "/image-to-image"
          [] op = "Masker::generate" -> "/image-to-image/masking"
          [] OTHER -> "/text-to-image"]

\* a Client of an API function exists and is about to send or has sent
Sending == cpc \in {"connect", "tls", "handshake", "request", "frames"}

\* C16: every generate operation (text-to-image generate and generate_once,
\* image-to-image, masking) sends a POST whose path is
\* /v1/generation/{engine in lower case}/{route}, so that two identifiers
\* differing only in case reach the same path.
C16_LowerCaseEnginePath ==
    (Sending /\ call.op \in DOMAIN GenerateRoutes) =>
        /\ unwrap(client).method = "POST"
        /\ unwrap(client).url =
              "https://api.stability.ai/v1/generation/"
              \o to_lowercase(call.arg[1]) \o GenerateRoutes[call.op]

\* Masker::generate was called with an identifier in mixed case and is
\* about to connect
C16_Witness ==
    /\ Sending
    /\ call.op = "Masker::generate"
    /\ call.arg = <<"Stable-Diffusion-V1-6">>
    /\ unwrap(client).url =
          "https://api.stability.ai/v1/generation/Stable-Diffusion-V1-6/image-to-image/masking"

\* a multipart body was encoded by the generate operation in progress
MultipartEncoded == is_some(payload) /\ unwrap(payload).type = "multipart"

\* the values of the header `name` of a Client
HeaderValues(c, name) ==
    {c.headers[i][2] : i \in {j \in DOMAIN c.headers : c.headers[j][1] = name}}

\* C19: in every multipart body made by ImageToImage, Masker or Upscaler,
\* every part starts with the same boundary token, the closing marker with
\* that token occurs exactly once and is the last segment, and the boundary
\* parameter of the request's Content-Type header is that same token.
C19_OneBoundaryHeaderAndBody ==
    MultipartEncoded =>
        LET body == unwrap(payload).body
            token == unwrap(payload).boundary
        IN  /\ call.op \in {"ImageToImage::generate", "Masker::generate",
                            "Upscaler::generate"}
            /\ body # <<>>
            /\ \A i \in DOMAIN body :
                  /\ body[i].boundary = token
                  /\ body[i].part = "end" <=> i = Len(body)
            /\ \E rnd \in RandU64 : token = "-----------------------------" \o rnd
            /\ Sending =>
                  HeaderValues(unwrap(client), "content-type")
                     = {"multipart/form-data; boundary=" \o token}

\* Upscaler::generate encoded its body with the largest random number and
\* built the Client that sends it
C19_Witness ==
    /\ MultipartEncoded
    /\ Sending
    /\ call.op = "Upscaler::generate"
    /\ unwrap(payload).boundary = "-----------------------------18446744073709551615"
    /\ Len(unwrap(payload).body) >= 3
    /\ <<"content-type",
         "multipart/form-data; boundary=-----------------------------18446744073709551615">>
          \in {unwrap(client).headers[i] : i \in DOMAIN unwrap(client).headers}

\* the operations that send a finalized request
GenerateOps == DOMAIN GenerateRoutes \cup {"Upscaler::generate"}

\* the generate operation that just ended reached the server
Exchanged ==
    /\ cpc = "done"
    /\ call.op \in GenerateOps
    /\ \E i \in Events(trace, "request") : trace[i].ok

\* C21: generate consumes the finalized request, so a request (TextToImage,
\* ImageToImage, Masker, Upscaler) that took part in a network exchange is
\* never sent a second time: no later generate operation starts on it.
C21_SentAtMostOnce ==
    [][Exchanged => ~(call'.op \in GenerateOps /\ cpc' # "done"
                      /\ call'.self = call.self)]_vars

\* the header list of the ClientBuilder or Client c held at position p
HeadersAt(c, p) ==
    IF p \in {"builder", "chain"} THEN unwrap(c.headers) ELSE c.headers

\* a step of a call in progress that keeps a ClientBuilder or Client alive
ClientKept ==
    /\ cpc \notin {"idle", "done"}
    /\ is_some(client) /\ is_some(client')

\* C23: every ClientBuilder made by ClientBuilder::new(), and every Client
\* built from it, carries the header host: api.stability.ai and an
\* authorization header whose value is the API key of the environment, after
\* any path(), method() and header() calls; header() only appends, no entry
\* is ever removed or replaced.
C23_DefaultHeadersKept ==
    /\ [](is_some(client) =>
            LET headers == HeadersAt(unwrap(client), cpc)
            IN  /\ Len(headers) >= 2
                /\ headers[1] = <<"host", "api.stability.ai">>
                /\ headers[2] = <<"authorization", unwrap(env)>>)
    /\ [][ClientKept =>
            LET before == HeadersAt(unwrap(client), cpc)
                after == HeadersAt(unwrap(client'), cpc')
                called == trace'[Len(trace')]
            IN  /\ Len(after) >= Len(before)
                /\ SubSeq(after, 1, Len(before)) = before
                /\ Len(after) = Len(before) + 1
                      <=> (Len(trace') > Len(trace) /\ called.ev = "header")]_vars

\* a hand-made Client built after header() calls that name host and
\* authorization again: the entries of new() are still its first two
C23_Witness ==
    /\ cpc = "client"
    /\ env = Some("sk-test")
    /\ unwrap(client).headers =
          << <<"host", "api.stability.ai">>, <<"authorization", "sk-test">>,
             <<"host", "example.com">>, <<"authorization", "other">> >>

\* the generate operations that send a multipart body
MultipartOps == {"ImageToImage::generate", "Masker::generate", "Upscaler::generate"}

\* C30: in ImageToImage, Masker and Upscaler generate the multipart body,
\* with the read of the image files, is produced before the ClientBuilder is
\* made and before any connection: it is the first thing the call does, and
\* when a file cannot be read the call ends there with the I/O error, with no
\* client made and no connection attempted.
C30_EncodeBeforeConnect ==
    call.op \in MultipartOps =>
        /\ trace # <<>>
        /\ Events(trace, "to_multipart_form_data") = {1}
        /\ trace[1].ok => (cpc = "done" \/ is_some(payload))
        /\ ~trace[1].ok =>
              /\ Len(trace) = 1
              /\ cpc = "done"
              /\ unwrap(ret).tag = "Err"
              /\ unwrap(ret).val.variant = "IoError"
              /\ is_none(client) /\ is_none(payload) /\ is_none(sent)

\* Upscaler::generate could not read its image: it returned the I/O error
\* as the only thing it did
C30_Witness ==
    /\ call.op = "Upscaler::generate"
    /\ cpc = "done"
    /\ trace = <<[ev |-> "to_multipart_form_data", ok |-> FALSE]>>
    /\ ret = Some(Err(IoError("init_image.png")))
    /\ is_some(env)

\* the values of the text parts of a body that have the given name
PartValues(body, name) ==
    {body[i].value : i \in {j \in DOMAIN body : /\ body[j].part = "text"
                                                 /\ body[j].name = name}}

\* C29: a sampler other than None is transmitted under one wire identifier
\* on every path: the text the ImageToImage and the Masker encoder write for
\* it is its JSON name (the serde rename), which TextToImage sends.
C29_OneWireIdentifier ==
    [][(/\ pc = "built" /\ pc' = "encoded"
        /\ kind \in {"TextToImageBuilder", "ImageToImageBuilder", "MaskerBuilder"}
        /\ ~Sampler_is_none(unwrap(req).sampler))
       => LET wire == Sampler_serialize(unwrap(req).sampler)
          IN  IF kind = "TextToImageBuilder"
              THEN JsonValues(unwrap(out'), "sampler") = {wire}
              ELSE PartValues(EncodedBody, "sampler") = {wire}]_vars

\* a built request of a kind that has the generation parameters
BuiltGeneration ==
    /\ kind \in {"TextToImageBuilder", "ImageToImageBuilder", "MaskerBuilder"}
    /\ is_some(req)

\* C25: after any sequence of setter calls, every TextToImage, ImageToImage
\* and Masker request that build() returns satisfies all the constraints at
\* once: height and width (TextToImage) are multiples of 64 and at least
\* 128, cfg_scale <= 35, samples <= 10, steps <= 150, a style preset is
\* there and the first prompt text is non-empty.  No value that a setter of
\* the builder rejects is in a built request (so steps is also at least 10
\* where steps() has that check), and a request built from the mandatory
\* fields alone, all else defaulted, satisfies the same constraints.
C25_BuiltRequestsValid ==
    BuiltGeneration =>
        LET r == unwrap(req) IN
        /\ kind = "TextToImageBuilder" =>
              /\ r.height % 64 = 0 /\ r.height >= 128
              /\ r.width % 64 = 0 /\ r.width >= 128
        /\ r.cfg_scale <= 35
        /\ r.samples <= 10
        /\ r.steps <= 150
        /\ kind # "ImageToImageBuilder" => r.steps >= 10
        /\ r.style_preset \in StylePresets
        /\ r.text_prompts # <<>>
        /\ r.text_prompts[1].text # ""

\* a TextToImage request built with two limits themselves set and all the
\* other fields defaulted
C25_Witness ==
    /\ kind = "TextToImageBuilder" /\ pc = "built"
    /\ unwrap(req).cfg_scale = 35
    /\ unwrap(req).samples = 10
    /\ unwrap(req).steps = 50
    /\ unwrap(req).height = 1024 /\ unwrap(req).width = 1024

\* the error of a check when the check fails, nothing otherwise
Failing(failed, error) == IF failed THEN <<error>> ELSE <<>>

\* the mandatory-field checks that fail on a builder, in the order of precedence
FailedChecks(k, self) ==
    LET no_prompt == self.text_prompts = <<>> \/ self.text_prompts[1].text = ""
    IN  CASE k = "MaskerBuilder" ->
                Failing(is_none(self.init_image), InitImagePathNotSet)
                \o Failing(is_none(self.style_preset), StylePresetNotSet)
                \o Failing(no_prompt, TextPromptEmpty)
                \o Failing(is_none(self.mask_source), MaskSourceNotSet)
                \o Failing(/\ self.mask_source \in {Some("MaskImageBlack"),
                                                     Some("MaskImageWhite")}
                           /\ is_none(self.mask_image), MaskImagePathNotSet)
          [] k = "ImageToImageBuilder" ->
                Failing(is_none(self.init_image), InitImagePathNotSet)
                \o Failing(is_none(self.style_preset), StylePresetNotSet)
                \o Failing(no_prompt, TextPromptEmpty)
          [] k = "UpscalerBuilder" ->
                Failing(is_none(self.image), UpscaleImagePathNotSet)
                \o Failing(is_some(self.width) /\ is_some(self.height),
                           UpscaleWidthHeightConflict)

\* C26: when several mandatory-field checks fail at once, build() reports
\* exactly one error, the first in a fixed precedence: for MaskerBuilder init
\* image, style preset, text prompt, mask source, mask image; for
\* ImageToImageBuilder init image, style preset, text prompt; for
\* UpscalerBuilder image path, width/height conflict.  It succeeds exactly
\* when no check fails.
C26_FirstFailedCheckReported ==
    [][(BuildStep /\ kind # "TextToImageBuilder")
       => LET failed == FailedChecks(kind, b)
          IN  /\ failed = <<>> <=> (pc' = "built" /\ res'.err = None)
              /\ failed # <<>> => (pc' = "failed" /\ res'.err = Some(failed[1]))]_vars

\* MaskerBuilder.build() reported the missing init image
C26_Witness ==
    /\ kind = "MaskerBuilder"
    /\ res.op = "build"
    /\ res.err = Some(InitImagePathNotSet)
    /\ pc = "failed"

\* the setter calls tried on a builder of kind k, as <<name, arguments>>
Unary(op, S) == {<<op, <<v>>>> : v \in S}

Calls(k) ==
    {<<"text_prompt", p>> : p \in PromptArgs}
    \cup Unary("cfg_scale", CfgScales) \cup Unary("seed", Seeds)
    \cup Unary("steps", StepsVals)
    \cup (IF k = "UpscalerBuilder"
          THEN Unary("image", InitPaths) \cup Unary("height", UpscaleDims)
               \cup Unary("width", UpscaleDims)
          ELSE Unary("clip_guidance_preset", ClipGuidancePresets)
               \cup Unary("sampler", Samplers) \cup Unary("samples", SamplesVals)
               \cup Unary("style_preset", StylePresets))
    \cup (IF k = "TextToImageBuilder"
          THEN Unary("height", Dims) \cup Unary("width", Dims)
               \cup Unary("extras", ExtrasVals)
          ELSE {})
    \cup (IF k \in {"ImageToImageBuilder", "MaskerBuilder"}
          THEN Unary("init_image_path", InitPaths) ELSE {})
    \cup (IF k = "ImageToImageBuilder"
          THEN Unary("init_image_mode", ImageModes)
               \cup Unary("image_strength", ImageStrengths)
          ELSE {})
    \cup (IF k = "MaskerBuilder"
          THEN Unary("mask_source", MaskSources) \cup Unary("mask_image", MaskPaths)
          ELSE {})

\* the value of the setter call c on the builder self of kind k
Call(k, self, c) ==
    LET op == c[1]
        v == c[2][1]
    IN  CASE k = "TextToImageBuilder" ->
               (CASE op = "height" -> TextToImageBuilder_height(self, v)
                 [] op = "width" -> TextToImageBuilder_width(self, v)
                 [] op = "text_prompt" -> TextToImageBuilder_text_prompt(self, v, c[2][2])
                 [] op = "cfg_scale" -> TextToImageBuilder_cfg_scale(self, v)
                 [] op = "clip_guidance_preset" ->
                       TextToImageBuilder_clip_guidance_preset(self, v)
                 [] op = "sampler" -> TextToImageBuilder_sampler(self, v)
                 [] op = "samples" -> TextToImageBuilder_samples(self, v)
                 [] op = "seed" -> TextToImageBuilder_seed(self, v)
                 [] op = "steps" -> TextToImageBuilder_steps(self, v)
                 [] op = "style_preset" -> TextToImageBuilder_style_preset(self, v)
                 [] op = "extras" -> TextToImageBuilder_extras(self, v))
          [] k = "ImageToImageBuilder" ->
               (CASE op = "init_image_path" -> ImageToImageBuilder_init_image_path(self, v)
                 [] op = "init_image_mode" -> ImageToImageBuilder_init_image_mode(self, v)
                 [] op = "image_strength" -> ImageToImageBuilder_image_strength(self, v)
                 [] op = "text_prompt" -> ImageToImageBuilder_text_prompt(self, v, c[2][2])
                 [] op = "cfg_scale" -> ImageToImageBuilder_cfg_scale(self, v)
                 [] op = "clip_guidance_preset" ->
                       ImageToImageBuilder_clip_guidance_preset(self, v)
                 [] op = "sampler" -> ImageToImageBuilder_sampler(self, v)
                 [] op = "samples" -> ImageToImageBuilder_samples(self, v)
                 [] op = "seed" -> ImageToImageBuilder_seed(self, v)
                 [] op = "steps" -> ImageToImageBuilder_steps(self, v)
                 [] op = "style_preset" -> ImageToImageBuilder_style_preset(self, v))
          [] k = "MaskerBuilder" ->
               (CASE op = "init_image_path" -> MaskerBuilder_init_image_path(self, v)
                 [] op = "mask_source" -> MaskerBuilder_mask_source(self, v)
                 [] op = "mask_image" -> MaskerBuilder_mask_image(self, v)
                 [] op = "text_prompt" -> MaskerBuilder_text_prompt(self, v, c[2][2])
                 [] op = "cfg_scale" -> MaskerBuilder_cfg_scale(self, v)
                 [] op = "clip_guidance_preset" ->
                       MaskerBuilder_clip_guidance_preset(self, v)
                 [] op = "sampler" -> MaskerBuilder_sampler(self, v)
                 [] op = "samples" -> MaskerBuilder_samples(self, v)
                 [] op = "seed" -> MaskerBuilder_seed(self, v)
                 [] op = "steps" -> MaskerBuilder_steps(self, v)
                 [] op = "style_preset" -> MaskerBuilder_style_preset(self, v))
          [] k = "UpscalerBuilder" ->
               (CASE op = "image" -> UpscalerBuilder_image(self, v)
                 [] op = "height" -> UpscalerBuilder_height(self, v)
                 [] op = "width" -> UpscalerBuilder_width(self, v)
                 [] op = "text_prompt" -> UpscalerBuilder_text_prompt(self, v, c[2][2])
                 [] op = "cfg_scale" -> UpscalerBuilder_cfg_scale(self, v)
                 [] op = "seed" -> UpscalerBuilder_seed(self, v)
                 [] op = "steps" -> UpscalerBuilder_steps(self, v))

\* the builder field a setter assigns
FieldOf(op) ==
    CASE op = "text_prompt" -> "text_prompts"
      [] op = "init_image_path" -> "init_image"
      [] OTHER -> op

\* a setter call returned Ok(builder)
SetterOk == pc = "accumulating" /\ pc' = "accumulating" /\ res'.op # "new"

\* the call made in this step and another valid call c, made in either
\* order on the builder, give the same builder
Commutes(c) ==
    LET first == <<res'.op, res'.arg>>
        other == Call(kind, b, c)
    IN  other.tag = "Ok" =>
           Call(kind, b', c) = Call(kind, other.val, first)

\* the claim as stated: any ordering of the same valid setter calls yields
\* the same built request, so any two valid calls can be swapped.
C27_Original ==
    [][SetterOk => \A c \in Calls(kind) : Commutes(c)]_vars

\* C27: a successful setter call changes only its own field: a scalar
\* setter leaves its argument there, whatever was there before (the last
\* call wins), text_prompt() appends one prompt to the list, and every other
\* field is unchanged.  Setter calls on distinct fields commute, so any
\* ordering of the same valid calls that keeps the order of the calls on
\* each single field yields the same builder and so the same built request.
C27_SetterFrame ==
    [][SetterOk =>
        LET field == FieldOf(res'.op) IN
        /\ \A f \in DOMAIN b \ {field} : b'[f] = b[f]
        /\ IF res'.op = "text_prompt"
           THEN b'.text_prompts
                   = Append(b.text_prompts, TextPrompt(res'.arg[1], res'.arg[2]))
           ELSE b'[field] = Some(res'.arg[1])
        /\ \A c \in Calls(kind) : FieldOf(c[1]) # field => Commutes(c)]_vars

\* cfg_scale() was called a second time, with another valid value, on a
\* builder that holds a prompt
C27_Witness ==
    /\ pc = "accumulating"
    /\ kind = "UpscalerBuilder"
    /\ res = [op |-> "cfg_scale", arg |-> <<35>>, err |-> None]
    /\ ncalls = 4
    /\ b.cfg_scale = Some(35)
    /\ b.height = Some(512)
    /\ Len(b.text_prompts) = 2

\* the body holds a part of that name
HasPart(body, name) ==
    \E i \in DOMAIN body : body[i].part # "end" /\ body[i].name = name

\* to_multipart_form_data() of a request of kind k returned a body
Encodes(k) == kind = k /\ pc = "built" /\ pc' = "encoded"

\* C28: an ImageToImage body holds an image_strength part exactly when
\* init_image_mode is ImageStrength, and a sampler part exactly when the
\* sampler is not None.  An Upscaler body holds a height (width) part exactly
\* when height (width) was set on the builder: build() stores 0 for the one
\* not set, a set one is never 0, and the encoder writes the part for a
\* non-zero value; so at most one of the two parts is transmitted.
C28_OptionalParts ==
    [][/\ Encodes("ImageToImageBuilder") =>
             /\ HasPart(EncodedBody, "image_strength")
                   <=> unwrap(req).init_image_mode = "ImageStrength"
             /\ HasPart(EncodedBody, "sampler")
                   <=> ~Sampler_is_none(unwrap(req).sampler)
       /\ (BuildStep /\ kind = "UpscalerBuilder" /\ pc' = "built") =>
             /\ unwrap(req').height # 0 <=> is_some(b.height)
             /\ unwrap(req').width # 0 <=> is_some(b.width)
       /\ Encodes("UpscalerBuilder") =>
             /\ HasPart(EncodedBody, "height") <=> unwrap(req).height # 0
             /\ HasPart(EncodedBody, "width") <=> unwrap(req).width # 0
             /\ ~(HasPart(EncodedBody, "height") /\ HasPart(EncodedBody, "width"))
      ]_vars

\* an Upscaler built with width 2048 and no height was encoded: the body has
\* a width part and no height part
C28_Witness ==
    /\ kind = "UpscalerBuilder"
    /\ pc = "encoded"
    /\ unwrap(req).width = 2048
    /\ unwrap(req).height = 0
    /\ HasPart(unwrap(out), "width")
    /\ ~HasPart(unwrap(out), "height")

\* an ImageToImage with init_image_mode StepSchedule and no sampler was
\* encoded: the body has neither an image_strength nor a sampler part
C28_WitnessStepSchedule ==
    /\ kind = "ImageToImageBuilder"
    /\ pc = "encoded"
    /\ unwrap(req).init_image_mode = "StepSchedule"
    /\ Sampler_is_none(unwrap(req).sampler)
    /\ ~HasPart(unwrap(out), "image_strength")
    /\ ~HasPart(unwrap(out), "sampler")

-----------------------------------------------------------------------------
(* Claims about Image::save, under SaveSpec *)

\* save() returned Ok(())
SavedOk == spc = "returned" /\ sret = Some(Ok(<<>>))

\* C24: when save() has returned Ok(()) the file at the path holds exactly
\* the bytes the payload decodes to.  (The claim says so of every save() of
\* a decodable payload; this is the case most in its favour, where the file
\* was created and save() reported success.)
C24_SavedFileHoldsDecoded ==
    SavedOk => disk = Some(decode_vec(img).val)

\* the same once no write is outstanding any more
C24_SavedFileHoldsDecodedAtRest ==
    (SavedOk /\ is_none(inflight)) => disk = Some(decode_vec(img).val)

\* what does hold of save(): with a payload that does not decode it returns
\* the error of the decoder or of File::create and writes nothing; the file
\* is as it was (File::create failed) or empty (created or emptied before
\* the payload was decoded).  With a payload that decodes, the file holds
\* the decoded bytes and nothing of its earlier content once the blocking
\* write has succeeded.
Image_save_Holds ==
    spc = "returned" =>
        IF decode_vec(img).tag = "Err"
        THEN /\ unwrap(sret).tag = "Err"
             /\ is_none(inflight)
             /\ disk \in {prior, Some(<<>>)}
        ELSE \/ unwrap(sret) = Err(IoError(SavePath)) /\ disk = prior
             \/ /\ SavedOk
                /\ IF is_some(inflight)
                   THEN disk = Some(<<>>) /\ unwrap(inflight) = decode_vec(img).val
                   ELSE disk \in {Some(<<>>), Some(decode_vec(img).val)}

\* save() of "aGk=" over a file that held other bytes returned Ok(()), the
\* write completed and the file holds the two bytes of "hi"
Image_save_Replaced ==
    /\ SavedOk
    /\ img = <<"a", "G", "k", "=">>
    /\ prior = Some(<<9, 9, 9>>)
    /\ is_none(inflight)
    /\ disk = Some(<<104, 105>>)

\* save() of a payload that does not decode emptied a file that held bytes
Image_save_EmptiedOnError ==
    /\ spc = "returned"
    /\ unwrap(sret) = Err(DecodeError)
    /\ prior = Some(<<9, 9, 9>>)
    /\ disk = Some(<<>>)

-----------------------------------------------------------------------------
(* Two API calls made concurrently (get_engines, get_user_account,          *)
(* get_user_balance).  A call runs without interruption from one .await to  *)
(* the next: the ClientBuilder chain, build() and build_request() are one   *)
(* step, every awaited network operation is one step.  All a call works on  *)
(* are its own locals; the environment variable is only read.               *)

\* most frames of one response body
MaxTaskFrames == 1

ApiGets == {"get_engines", "get_user_account", "get_user_balance"}
TaskChunks == {"[]", "{\"credits\":1.0}"}

\* the calls of `chain` made on the Ok value of r, each followed by `?`
RECURSIVE ApplyChain(_, _)
ApplyChain(r, chain) ==
    IF r.tag = "Err" \/ chain = <<>> THEN r
    ELSE ApplyChain(
             CASE Head(chain)[1] = "method" ->
                     ClientBuilder_method(r.val, Head(chain)[2])
               [] Head(chain)[1] = "path" ->
                     ClientBuilder_path(r.val, Head(chain)[2])
               [] Head(chain)[1] = "header" ->
                     ClientBuilder_header(r.val, Head(chain)[2], Head(chain)[3]),
             Tail(chain))

\* ClientBuilder::new()?.method("GET")?.path(..)?.header(..)? of an account
\* function
ApiBuilder(op, environment) ==
    ApplyChain(ClientBuilder_new(environment),
               Chain("GET", account_path(op),
                     << <<"Content-Type", "application/json">> >>))

\* the same followed by .build()?
ApiClient(op, environment) ==
    IF ApiBuilder(op, environment).tag = "Err" THEN ApiBuilder(op, environment)
    ELSE ClientBuilder_build(ApiBuilder(op, environment).val)

\* faulty variant: one buffer collects the body bytes of all calls
Writer_Shared(ts, task) ==
    (IF is_some(ts[1].resp) THEN unwrap(ts[1].resp).bytes ELSE "")
    \o (IF is_some(ts[2].resp) THEN unwrap(ts[2].resp).bytes ELSE "")

\* `let w = Vec::new(); let mut writer = BufWriter::new(w);`: the buffer a
\* call collects its body in is a local of that call
Writer(ts, task) == unwrap(ts[task].resp).bytes

ConcurrentInit ==
    /\ Start("TextToImageBuilder")
    /\ NoEncoder
    /\ env \in {None, Some("sk-test")}
    /\ ClientIdle
    /\ SaveIdle
    /\ TasksIdle

\* the call `task` moves on to the local state next
TaskMoves(task, next) ==
    /\ tasks' = [tasks EXCEPT ![task] = next]
    /\ UNCHANGED <<builderVars, enc, clientVars, saveVars>>

\* the awaited operation ev of the call failed: `?` returns its error
TaskFailed(task, ev) ==
    [tasks[task] EXCEPT !.trace = Append(@, [ev |-> ev, ok |-> FALSE]),
                        !.cpc = "done",
                        !.client = None,
                        !.ret = Some(Err(ForeignError("transport", ev)))]

\* the awaited operation ev of the call succeeded
TaskPassed(task, ev, next) ==
    [tasks[task] EXCEPT !.trace = Append(@, [ev |-> ev, ok |-> TRUE]),
                        !.cpc = next]

\* an account function is called: everything up to the first .await
Task_Call(task) ==
    /\ tasks[task].cpc = "idle"
    /\ \E op \in ApiGets :
          LET c == ApiClient(op, env) IN
          TaskMoves(task,
              IF c.tag = "Ok"
              THEN [tasks[task] EXCEPT !.op = op, !.cpc = "connect",
                                       !.client = Some(c.val)]
              ELSE [tasks[task] EXCEPT !.op = op, !.cpc = "done",
                                       !.ret = Some(c)])
    /\ UNCHANGED conns

\* TcpStream::connect(self.format_address()).await?: a new connection
Task_Connect(task) ==
    /\ tasks[task].cpc = "connect"
    /\ \/ /\ conns' = Append(conns, task)
          /\ TaskMoves(task, [TaskPassed(task, "connect", "tls")
                                 EXCEPT !.conn = Some(Len(conns) + 1)])
       \/ /\ TaskMoves(task, TaskFailed(task, "connect"))
          /\ UNCHANGED conns

\* one awaited step on the connection of the call
Task_Step(task, at, ev, next) ==
    /\ tasks[task].cpc = at
    /\ \/ TaskMoves(task, TaskPassed(task, ev, next))
       \/ TaskMoves(task, TaskFailed(task, ev))
    /\ UNCHANGED conns

Task_Tls(task) == Task_Step(task, "tls", "tls", "handshake")

Task_Handshake(task) == Task_Step(task, "handshake", "handshake", "request")

\* sender.send_request(req).await?
Task_Request(task) ==
    /\ tasks[task].cpc = "request"
    /\ \/ \E status \in Statuses :
             TaskMoves(task, [TaskPassed(task, "request", "frames") EXCEPT
                 !.resp = Some([status |-> status, bytes |-> "", frames |-> <<>>])])
       \/ TaskMoves(task, TaskFailed(task, "request"))
    /\ UNCHANGED conns

\* one turn of the frame loop
Task_Frame(task) ==
    /\ tasks[task].cpc = "frames"
    /\ Len(unwrap(tasks[task].resp).frames) < MaxTaskFrames
    /\ \/ \E chunk \in TaskChunks :
             TaskMoves(task, [TaskPassed(task, "frame", "frames") EXCEPT
                 !.resp = Some([unwrap(@) EXCEPT
                                   !.bytes = Writer(tasks, task) \o chunk,
                                   !.frames = Append(@, Some(chunk))])])
       \/ TaskMoves(task, [TaskPassed(task, "frame", "frames") EXCEPT
                 !.resp = Some([unwrap(@) EXCEPT !.frames = Append(@, None)])])
       \/ TaskMoves(task, TaskFailed(task, "frame"))
    /\ UNCHANGED conns

\* the body is complete: send_request returns, the function decodes the bytes
Task_BodyEnd(task) ==
    /\ tasks[task].cpc = "frames"
    /\ LET r == send_request_result(unwrap(tasks[task].resp).status,
                                    unwrap(tasks[task].resp).bytes)
       IN  TaskMoves(task, [TaskPassed(task, "body end", "done") EXCEPT
               !.client = None,
               !.ret = Some(IF r.tag = "Err" THEN r
                            ELSE deserialize(tasks[task].op, r.val))])
    /\ UNCHANGED conns

\* the steps of one call
TaskNext(task) ==
    \/ Task_Call(task)
    \/ Task_Connect(task)
    \/ Task_Tls(task)
    \/ Task_Handshake(task)
    \/ Task_Request(task)
    \/ Task_Frame(task)
    \/ Task_BodyEnd(task)

ConcurrentNext ==
    \/ \E task \in TaskIds : Task_Call(task)
    \/ \E task \in TaskIds : Task_Connect(task)
    \/ \E task \in TaskIds : Task_Tls(task)
    \/ \E task \in TaskIds : Task_Handshake(task)
    \/ \E task \in TaskIds : Task_Request(task)
    \/ \E task \in TaskIds : Task_Frame(task)
    \/ \E task \in TaskIds : Task_BodyEnd(task)

ConcurrentSpec == ConcurrentInit /\ [][ConcurrentNext]_vars

-----------------------------------------------------------------------------
(* Claims about concurrent calls, under ConcurrentSpec *)

\* the value an account function returns when it runs alone with that
\* environment and the server answers as recorded in the trace and the
\* response: the error of the ClientBuilder chain, else the error of the
\* first awaited operation that failed, else what the status and the data
\* of the frames received give
SequentialResult(op, environment, steps, response) ==
    IF ApiClient(op, environment).tag = "Err" THEN ApiClient(op, environment)
    ELSE IF \E i \in DOMAIN steps : ~steps[i].ok
    THEN Err(ForeignError("transport",
                          steps[CHOOSE i \in DOMAIN steps : ~steps[i].ok].ev))
    ELSE IF send_request_result(unwrap(response).status,
                                FrameData(unwrap(response).frames)).tag = "Err"
    THEN send_request_result(unwrap(response).status,
                             FrameData(unwrap(response).frames))
    ELSE deserialize(op, send_request_result(
                             unwrap(response).status,
                             FrameData(unwrap(response).frames)).val)

\* under ClientSpec, where one call runs at a time, an account function
\* returns that value
SequentialResult_Alone ==
    (cpc = "done" /\ call.op \in ApiGets)
        => ret = Some(SequentialResult(call.op, env, trace, resp))

\* the connections the call opened
ConnsOf(task) == {i \in DOMAIN conns : conns[i] = task}

\* C22: for every interleaving of two calls, a call that has returned
\* returned what it returns running alone against the answers the server gave
\* it; a call that connected has one connection, which it opened itself and
\* which no other call uses, and a call that did not has none; and a call
\* that has not returned can take its next step whatever the other call is
\* doing.
C22_CallsIndependent ==
    \A task \in TaskIds :
        /\ tasks[task].cpc = "done" =>
              tasks[task].ret = Some(SequentialResult(tasks[task].op, env,
                                         tasks[task].trace, tasks[task].resp))
        /\ IF \E i \in Events(tasks[task].trace, "connect") : tasks[task].trace[i].ok
           THEN ConnsOf(task) = {unwrap(tasks[task].conn)}
           ELSE ConnsOf(task) = {} /\ is_none(tasks[task].conn)
        /\ \A other \in TaskIds \ {task} :
              is_some(tasks[task].conn) => tasks[other].conn # tasks[task].conn
        /\ tasks[task].cpc # "done" => ENABLED TaskNext(task)

\* call 2 connected first, both calls read a body and returned: get_engines
\* the engine list, get_user_balance the balance
C22_Witness ==
    /\ conns = <<2, 1>>
    /\ tasks[1].op = "get_engines"
    /\ tasks[1].ret = Some(Ok([engines |-> <<>>]))
    /\ tasks[2].op = "get_user_balance"
    /\ tasks[2].ret = Some(Ok([credits |-> 1]))

====
